---- MODULE Spec2Model ----
(***************************************************************************)
(* A model of the NTFS-3G system-compression plugin: the format probe, the *)
(* decompression context (open / read / close), the chunk offset cache,    *)
(* the one-entry chunk cache and the plugin callbacks over a file-handle   *)
(* slot.                                                                   *)
(*                                                                         *)
(* Scaling.  TLC's integers are 32 bits wide, so the machine is modelled   *)
(* with narrow bytes: a byte has BitsPerByte bits, a u32 is four such      *)
(* bytes and a u64 / s64 / size_t is eight, and every fixed-width          *)
(* operation of the source wraps at the scaled width.  Chunk orders are    *)
(* the source's orders minus OrderScale, and the offset window holds       *)
(* NUM_CHUNK_OFFSETS entries (128 in the source, a tuning knob there).     *)
(***************************************************************************)
EXTENDS Integers, Sequences, FiniteSets, TLC

\* ------------------------------------------------------------- bounds
BitsPerByte == 2
OrderScale == 9
NUM_CHUNK_OFFSETS == 3
MaxChunks == 3
MaxOpens == 2
MaxFailAt == 1
MaxHugeChunks == 5

\* ------------------------------------------------- fixed-width integers
Pow2(n) == 2 ^ n

ByteMod == Pow2(BitsPerByte)
U32Mod == Pow2(4 * BitsPerByte)
U64Mod == Pow2(8 * BitsPerByte)
UINT32_MAX == U32Mod - 1
UINT64_MAX == U64Mod - 1
S64_MIN == 0 - (U64Mod \div 2)
S64_MAX == (U64Mod \div 2) - 1

u32(x) == x % U32Mod
u64(x) == x % U64Mod
\* (s64)x for a u64 bit pattern x
s64(x) == IF u64(x) > S64_MAX THEN u64(x) - U64Mod ELSE u64(x)

min(a, b) == IF a < b THEN a ELSE b
max(a, b) == IF a > b THEN a ELSE b

\* x << s and x >> s on u64 operands
shl64(x, s) == u64(x * Pow2(s))
shr64(x, s) == x \div Pow2(s)

\* Little-endian decoding / encoding of an n-byte integer
RECURSIVE le_to_cpu(_)
le_to_cpu(bytes) ==
    IF bytes = <<>> THEN 0
    ELSE Head(bytes) + ByteMod * le_to_cpu(Tail(bytes))

RECURSIVE cpu_to_le(_, _)
cpu_to_le(x, n) ==
    IF n = 0 THEN <<>>
    ELSE <<x % ByteMod>> \o cpu_to_le(x \div ByteMod, n - 1)

\* ------------------------------------------------------------ constants
\* A null pointer to a structure (inode, reparse blob, context); a null
\* buffer is the empty sequence.
NULL == [null |-> TRUE]
NullBuf == <<>>
\* errno left as it was
NOERR == "-"
\* No chunk
NoChunk == 0 - 1
INVALID_CHUNK_INDEX == UINT64_MAX
\* An indeterminate byte: malloc'ed memory never written, or the output of
\* a failed decompression.  It is outside the byte range.
Junk == 0 - 1

IO_REPARSE_TAG_WOF == "0xC0000017"
WOF_CURRENT_VERSION == 1
WOF_PROVIDER_WIM == 1
WOF_PROVIDER_FILE == 2
WOF_FILE_PROVIDER_CURRENT_VERSION == 1
FORMAT_XPRESS4K == 0
FORMAT_LZX == 1
FORMAT_XPRESS8K == 2
FORMAT_XPRESS16K == 3

\* sizeof(REPARSE_POINT): le32 tag, le16 data length, le16 reserved
SizeofReparsePoint == 8
\* sizeof(WOF_FILE_PROVIDER_REPARSE_POINT_V1): header and four le32 fields
SizeofWofReparsePoint == SizeofReparsePoint + 16
SizeofU64 == 8

Repeat(b, n) == [i \in 1..n |-> b]
Take(s, n) == SubSeq(s, 1, min(n, Len(s)))
Drop(s, n) == SubSeq(s, n + 1, Len(s))
\* s with its first Len(d) elements overwritten by d (a write at offset 0)
Overwrite(s, d) ==
    [i \in 1..max(Len(s), Len(d)) |-> IF i <= Len(d) THEN d[i] ELSE s[i]]

\* --------------------------------------------------------------- codecs
\* The XPRESS and LZX decompressors are external to the engine; only their
\* interface is declared (system_compression.h).  They are modelled by two
\* different toy codecs with that interface: 0 and the output on success,
\* non-zero and an indeterminate output buffer on malformed input.
\* XPRESS: the input followed by copies of its last byte.
xpress_decompress(in, out_len) ==
    IF in = <<>> \/ Len(in) > out_len \/ in[Len(in)] = ByteMod - 1
        \/ \E i \in 1..Len(in) : in[i] = Junk
    THEN [ret |-> 0 - 1, errno |-> "EINVAL", out |-> Repeat(Junk, out_len)]
    ELSE [ret |-> 0, errno |-> NOERR,
          out |-> in \o Repeat(in[Len(in)], out_len - Len(in))]

\* LZX: copies of the input's first byte followed by the input.
lzx_decompress(in, out_len) ==
    IF in = <<>> \/ Len(in) > out_len \/ in[1] = ByteMod - 1
        \/ \E i \in 1..Len(in) : in[i] = Junk
    THEN [ret |-> 0 - 1, errno |-> "EINVAL", out |-> Repeat(Junk, out_len)]
    ELSE [ret |-> 0, errno |-> NOERR,
          out |-> Repeat(in[1], out_len - Len(in)) \o in]

decompress(format, in, out_len) ==
    IF format = FORMAT_LZX THEN lzx_decompress(in, out_len)
    ELSE xpress_decompress(in, out_len)

get_chunk_order(format) ==
    CASE format = FORMAT_XPRESS4K -> 12 - OrderScale
      [] format = FORMAT_XPRESS8K -> 13 - OrderScale
      [] format = FORMAT_XPRESS16K -> 14 - OrderScale
      [] format = FORMAT_LZX -> 15 - OrderScale
      [] OTHER -> 0

\* ------------------------------------------------------- stream accessor
\* ntfs_attr_pread(na, pos, count, buf): the bytes of the stream in
\* [pos, pos + count), fewer at end of stream, none past it; -1 on an I/O
\* error (fails = TRUE) or a negative pos or count.
ntfs_attr_pread(stream, pos, count, fails) ==
    IF fails THEN [res |-> 0 - 1, errno |-> "EIO", data |-> <<>>]
    ELSE IF pos < 0 \/ count < 0
    THEN [res |-> 0 - 1, errno |-> "EINVAL", data |-> <<>>]
    ELSE IF pos >= Len(stream) THEN [res |-> 0, errno |-> NOERR, data |-> <<>>]
    ELSE [res |-> min(pos + count, Len(stream)) - pos, errno |-> NOERR,
          data |-> SubSeq(stream, pos + 1, min(pos + count, Len(stream)))]

\* ------------------------------------- building system-compressed files
\* The encoders matching the toy codecs: the shortest input that
\* decompresses to the chunk.
RECURSIVE StripTail(_)
StripTail(c) ==
    IF Len(c) >= 2 /\ c[Len(c)] = c[Len(c) - 1]
    THEN StripTail(SubSeq(c, 1, Len(c) - 1)) ELSE c

RECURSIVE StripHead(_)
StripHead(c) ==
    IF Len(c) >= 2 /\ c[1] = c[2] THEN StripHead(Tail(c)) ELSE c

\* How chunk c is stored: compressed when asked to and when that is shorter
\* and decodable, verbatim otherwise.
StoreChunk(format, c, squeeze) ==
    LET z == IF format = FORMAT_LZX THEN StripHead(c) ELSE StripTail(c)
    IN IF squeeze /\ Len(z) < Len(c) /\ decompress(format, z, Len(c)).ret = 0
       THEN z ELSE c

NumChunksOf(size, order) == (size + Pow2(order) - 1) \div Pow2(order)

\* Chunk k (0-based) of the plaintext
PlainChunk(plain, order, k) ==
    SubSeq(plain, k * Pow2(order) + 1, min((k + 1) * Pow2(order), Len(plain)))

StoredChunks(format, plain, squeeze) ==
    [k \in 1..NumChunksOf(Len(plain), get_chunk_order(format)) |->
        StoreChunk(format, PlainChunk(plain, get_chunk_order(format), k - 1),
                   squeeze)]

RECURSIVE Concat(_)
Concat(seqs) == IF seqs = <<>> THEN <<>> ELSE Head(seqs) \o Concat(Tail(seqs))

RECURSIVE SumLen(_, _)
SumLen(seqs, n) == IF n = 0 THEN 0 ELSE Len(seqs[n]) + SumLen(seqs, n - 1)

EntryBytes(size) == IF size <= UINT32_MAX THEN 4 ELSE 8

\* The chunk offset table of a well-formed stream: one entry per chunk but
\* the first, the chunk's offset from the end of the table.
OffsetTable(stored, width) ==
    Concat([k \in 1..(Len(stored) - 1) |-> cpu_to_le(SumLen(stored, k), width)])

\* The WofCompressedData stream of a well-formed file
WofStream(format, plain, squeeze) ==
    LET stored == StoredChunks(format, plain, squeeze)
    IN OffsetTable(stored, EntryBytes(Len(plain))) \o Concat(stored)

\* ------------------------------------------------- the chunk offset cache
\* The ghost record io counts what an operation does to the outside world:
\* io.preads stream reads issued, io.refills table refills, io.codecs codec
\* calls; the io.failAt-th stream read of the operation fails with an I/O
\* error (0: none does).
IoStart(failAt) == [preads |-> 0, refills |-> 0, codecs |-> 0, failAt |-> failAt]

IoPread(io) == [io EXCEPT !.preads = @ + 1]
IoFails(io) == io.failAt = io.preads + 1

EntryShift(ctx) == IF ctx.uncompressed_size <= UINT32_MAX THEN 2 ELSE 3

\* Entry j (0-based) of the table data held in the temporary buffer
TableEntry(data, shift, j) ==
    le_to_cpu(SubSeq(data, j * Pow2(shift) + 1, (j + 1) * Pow2(shift)))

\* A faulty WindowRange: the first chunk is taken to have a table entry
\* like any other
WindowRange_FirstHasEntry(ctx, chunk_idx) ==
    LET end_chunk == u64(chunk_idx + min(NUM_CHUNK_OFFSETS - 1,
                                         u64(ctx.num_chunks - chunk_idx)))
        n0 == u64(end_chunk - chunk_idx)
    IN [end_chunk |-> end_chunk,
        first_entry_to_read |-> IF chunk_idx = 0 THEN 0 ELSE chunk_idx - 1,
        num_entries_to_read |->
            IF end_chunk # ctx.num_chunks THEN u64(n0 + 1) ELSE n0]

\* A faulty WindowRange: the window is taken to locate as many chunks as it
\* has slots
WindowRange_OneMore(ctx, chunk_idx) ==
    LET end_chunk == u64(chunk_idx + min(NUM_CHUNK_OFFSETS,
                                         u64(ctx.num_chunks - chunk_idx)))
        n0 == IF chunk_idx = 0 THEN u64(u64(end_chunk - chunk_idx) - 1)
              ELSE u64(end_chunk - chunk_idx)
    IN [end_chunk |-> end_chunk,
        first_entry_to_read |-> IF chunk_idx = 0 THEN 0 ELSE chunk_idx - 1,
        num_entries_to_read |->
            IF end_chunk # ctx.num_chunks THEN u64(n0 + 1) ELSE n0]

\* The table entries a refill at chunk_idx reads, and the chunk the window
\* then ends before.
WindowRange(ctx, chunk_idx) ==
    LET end_chunk == u64(chunk_idx + min(NUM_CHUNK_OFFSETS - 1,
                                         u64(ctx.num_chunks - chunk_idx)))
        n0 == IF chunk_idx = 0 THEN u64(u64(end_chunk - chunk_idx) - 1)
              ELSE u64(end_chunk - chunk_idx)
    IN [end_chunk |-> end_chunk,
        first_entry_to_read |-> IF chunk_idx = 0 THEN 0 ELSE chunk_idx - 1,
        num_entries_to_read |->
            IF end_chunk # ctx.num_chunks THEN u64(n0 + 1) ELSE n0]

\* What the refill at start_chunk writes to chunk_offsets[0], [1], ... in
\* turn, from the table data: the implicit first entry, the entries read
\* less the base, the implicit last entry
WrittenSlots(ctx, start_chunk, rng, data, base0, base1) ==
    (IF start_chunk = 0 THEN <<0>> ELSE <<>>)
    \o [j \in 1..rng.num_entries_to_read |->
           u32(TableEntry(data, EntryShift(ctx), j - 1) - base0)]
    \o (IF rng.end_chunk = ctx.num_chunks
        THEN <<u32(ctx.compressed_size - base1)>> ELSE <<>>)

\* The array with the slots written; the slots after them keep what they
\* held
SlotsStored(ctx, written) ==
    [k \in 0..(NUM_CHUNK_OFFSETS - 1) |->
        IF k < Len(written) THEN written[k + 1] ELSE ctx.chunk_offsets[k]]

\* The window's slots after the refill at start_chunk
WindowSlots(ctx, start_chunk, rng, data, base0, base1) ==
    SlotsStored(ctx, WrittenSlots(ctx, start_chunk, rng, data, base0, base1))

\* The offset the entries of a window are kept relative to: the first
\* entry read, 0 for the window that starts the file
BaseEntry(ctx, start_chunk, data) ==
    IF start_chunk = 0 THEN 0 ELSE TableEntry(data, EntryShift(ctx), 0)

\* The stores of a refill at start_chunk once the table data is there;
\* base1 is the base with the table's own length added.  For the record,
\* written is the number of slots of chunk_offsets the refill wrote, from
\* slot 0 on.
StoreSlots(ctx, io, start_chunk, rng, data, base0, base1) ==
    [ctx |-> [ctx EXCEPT
                !.chunk_offsets =
                    WindowSlots(ctx, start_chunk, rng, data, base0, base1),
                !.base_chunk_offset = base1,
                !.base_chunk_idx = start_chunk],
     io |-> io, ret |-> 0, errno |-> NOERR,
     written |-> Len(WrittenSlots(ctx, start_chunk, rng, data, base0, base1))]

\* A faulty StoreBase: the table's own length is not added to the base
StoreBase_NoTable(ctx, io, start_chunk, rng, data, base0) ==
    StoreSlots(ctx, io, start_chunk, rng, data, base0, u64(base0))

\* Lines 493-524: the base with the table's length added, then the stores
StoreBase(ctx, io, start_chunk, rng, data, base0) ==
    StoreSlots(ctx, io, start_chunk, rng, data, base0,
               u64(base0 + shl64(u64(ctx.num_chunks - 1), EntryShift(ctx))))

\* A faulty StoreWindow: a short table read leaves the window as it was
StoreWindow_KeepBase(ctx, io, start_chunk, rng, rd) ==
    IF u64(rd.res) # shl64(rng.num_entries_to_read, EntryShift(ctx))
    THEN [ctx |-> ctx, io |-> io, ret |-> 0 - 1,
          errno |-> IF rd.res >= 0 THEN "EINVAL" ELSE rd.errno, written |-> 0]
    ELSE StoreBase(ctx, io, start_chunk, rng, rd.data,
                   BaseEntry(ctx, start_chunk, rd.data))

\* The context after the table read rd of a refill at start_chunk.
\* Returns [ctx, io, ret, errno, written].
StoreWindow(ctx, io, start_chunk, rng, rd) ==
    IF u64(rd.res) # shl64(rng.num_entries_to_read, EntryShift(ctx))
    THEN [ctx |-> [ctx EXCEPT !.base_chunk_idx = INVALID_CHUNK_INDEX],
          io |-> io, ret |-> 0 - 1,
          errno |-> IF rd.res >= 0 THEN "EINVAL" ELSE rd.errno, written |-> 0]
    ELSE StoreBase(ctx, io, start_chunk, rng, rd.data,
                   BaseEntry(ctx, start_chunk, rd.data))

\* The part of the stream a refill asks ntfs_attr_pread for: the entries
\* rng names, at the table's entry width
TableRequest(ctx, rng) ==
    [pos |-> s64(shl64(rng.first_entry_to_read, EntryShift(ctx))),
     count |-> s64(shl64(rng.num_entries_to_read, EntryShift(ctx)))]

\* The body of the if of get_chunk_location: (re)load the window so that
\* it starts at chunk_idx.  Returns [ctx, io, ret, errno, written].
RefillEntries(ctx, io, chunk_idx, rng) ==
    StoreWindow(ctx, [IoPread(io) EXCEPT !.refills = @ + 1], chunk_idx, rng,
               ntfs_attr_pread(ctx.na, TableRequest(ctx, rng).pos,
                               TableRequest(ctx, rng).count, IoFails(io)))

RefillWindow(ctx, io, chunk_idx) ==
    RefillEntries(ctx, io, chunk_idx, WindowRange(ctx, chunk_idx))

\* A faulty NeedsRefill: the window is never reused
NeedsRefill_Always(ctx, chunk_idx) == chunk_idx >= 0

\* A faulty NeedsRefill: a chunk before the window is not noticed
NeedsRefill_ForwardOnly(ctx, chunk_idx) ==
    u64(chunk_idx + 1) >= u64(ctx.base_chunk_idx + NUM_CHUNK_OFFSETS)

\* Lines 448-449: is chunk_idx, or the chunk after it, outside the window?
NeedsRefill(ctx, chunk_idx) ==
    \/ chunk_idx < ctx.base_chunk_idx
    \/ u64(chunk_idx + 1) >= u64(ctx.base_chunk_idx + NUM_CHUNK_OFFSETS)

\* A faulty LocateInWindow: the offset is not made absolute
LocateInWindow_NoBase(r, chunk_idx, cache_idx) ==
    IF r.ret # 0
    THEN [ctx |-> r.ctx, io |-> r.io, ret |-> 0 - 1, errno |-> r.errno,
          offset |-> 0, stored_size |-> 0, cache_idx |-> 0]
    ELSE [ctx |-> r.ctx, io |-> r.io, ret |-> 0, errno |-> NOERR,
          offset |-> u64(r.ctx.chunk_offsets[cache_idx]),
          stored_size |-> u32(r.ctx.chunk_offsets[cache_idx + 1]
                              - r.ctx.chunk_offsets[cache_idx]),
          cache_idx |-> cache_idx]

\* The tail of get_chunk_location: the chunk's offset and stored size out
\* of the window, r being what the refill (if any) returned.
LocateInWindow(r, chunk_idx, cache_idx) ==
    IF r.ret # 0
    THEN [ctx |-> r.ctx, io |-> r.io, ret |-> 0 - 1, errno |-> r.errno,
          offset |-> 0, stored_size |-> 0, cache_idx |-> 0]
    ELSE [ctx |-> r.ctx, io |-> r.io, ret |-> 0, errno |-> NOERR,
          offset |-> u64(r.ctx.base_chunk_offset
                         + r.ctx.chunk_offsets[cache_idx]),
          stored_size |-> u32(r.ctx.chunk_offsets[cache_idx + 1]
                              - r.ctx.chunk_offsets[cache_idx]),
          cache_idx |-> cache_idx]

LocateAfter(r, chunk_idx) ==
    LocateInWindow(r, chunk_idx,
                   IF r.ret # 0 THEN 0 ELSE u64(chunk_idx - r.ctx.base_chunk_idx))

\* get_chunk_location(ctx, chunk_idx, &offset, &stored_size).
\* Returns [ctx, io, ret, errno, offset, stored_size] and, for the record,
\* cache_idx: the lookup reads chunk_offsets[cache_idx] and [cache_idx + 1].
get_chunk_location(ctx, io, chunk_idx) ==
    LocateAfter(IF NeedsRefill(ctx, chunk_idx)
                THEN RefillWindow(ctx, io, chunk_idx)
                ELSE [ctx |-> ctx, io |-> io, ret |-> 0, errno |-> NOERR,
                      written |-> 0],
                chunk_idx)

\* ------------------------------------------------------------ chunk decode
\* The uncompressed length of chunk chunk_idx
ChunkLength(ctx, chunk_idx) ==
    IF chunk_idx = u64(ctx.num_chunks - 1)
    THEN u32(((u64(ctx.uncompressed_size - 1)) % ctx.chunk_size) + 1)
    ELSE ctx.chunk_size

\* What read_and_decompress_chunk returns is [ctx, io, ret, errno] and, for
\* the record, read_buffer, the buffer the stored bytes were read into
\* ("none": no read), and codec_args, the <<input length, output length>>
\* of each codec call made.
\* The end of read_and_decompress_chunk for a chunk stored compressed: d is
\* what the codec returned for in_len bytes to decode to out_len
StoreDecoded(ctx, io, d, in_len, out_len) ==
    [ctx |-> [ctx EXCEPT !.cached_chunk = Overwrite(@, d.out)],
     io |-> [io EXCEPT !.codecs = @ + 1], ret |-> d.ret, errno |-> d.errno,
     read_buffer |-> "temp_buffer", codec_args |-> <<<<in_len, out_len>>>>]

\* A faulty DecodeChunk: every chunk goes through the codec
DecodeChunk_AlwaysCodec(ctx, io, stored_size, uncompressed_size, rd) ==
    IF rd.res # stored_size
    THEN [ctx |-> ctx, io |-> io, ret |-> 0 - 1,
          errno |-> IF rd.res >= 0 THEN "EINVAL" ELSE rd.errno,
          read_buffer |-> "temp_buffer", codec_args |-> <<>>]
    ELSE StoreDecoded(ctx, io, decompress(ctx.format, rd.data, uncompressed_size),
                      Len(rd.data), uncompressed_size)

\* read_and_decompress_chunk from the stream read rd on: raw chunks are
\* read straight into the chunk buffer, overwriting its head; the others
\* go through the temporary buffer and the codec.  The temporary buffer is
\* written and then read within the call, so its content is not tracked.
DecodeChunk(ctx, io, stored_size, uncompressed_size, rd) ==
    IF stored_size = uncompressed_size
    THEN [ctx |-> [ctx EXCEPT !.cached_chunk = Overwrite(@, rd.data)],
          io |-> io,
          ret |-> IF rd.res # stored_size THEN 0 - 1 ELSE 0,
          errno |-> IF rd.res = stored_size THEN NOERR
                    ELSE IF rd.res >= 0 THEN "EINVAL" ELSE rd.errno,
          read_buffer |-> "buffer", codec_args |-> <<>>]
    ELSE IF rd.res # stored_size
    THEN [ctx |-> ctx, io |-> io, ret |-> 0 - 1,
          errno |-> IF rd.res >= 0 THEN "EINVAL" ELSE rd.errno,
          read_buffer |-> "temp_buffer", codec_args |-> <<>>]
    ELSE StoreDecoded(ctx, io, decompress(ctx.format, rd.data, uncompressed_size),
                      Len(rd.data), uncompressed_size)

\* A faulty ReadStoredChunk: only a stored size of zero is refused
ReadStoredChunk_NoUpperCheck(loc, uncompressed_size) ==
    IF loc.ret # 0
    THEN [ctx |-> loc.ctx, io |-> loc.io, ret |-> 0 - 1, errno |-> loc.errno,
          read_buffer |-> "none", codec_args |-> <<>>]
    ELSE IF loc.stored_size <= 0
    THEN [ctx |-> loc.ctx, io |-> loc.io, ret |-> 0 - 1, errno |-> "EINVAL",
          read_buffer |-> "none", codec_args |-> <<>>]
    ELSE DecodeChunk(loc.ctx, IoPread(loc.io), loc.stored_size,
                     uncompressed_size,
                     ntfs_attr_pread(loc.ctx.na, s64(loc.offset),
                                     loc.stored_size, IoFails(loc.io)))

\* read_and_decompress_chunk from the location loc on
ReadStoredChunk(loc, uncompressed_size) ==
    IF loc.ret # 0
    THEN [ctx |-> loc.ctx, io |-> loc.io, ret |-> 0 - 1, errno |-> loc.errno,
          read_buffer |-> "none", codec_args |-> <<>>]
    ELSE IF loc.stored_size <= 0 \/ loc.stored_size > uncompressed_size
    THEN [ctx |-> loc.ctx, io |-> loc.io, ret |-> 0 - 1, errno |-> "EINVAL",
          read_buffer |-> "none", codec_args |-> <<>>]
    ELSE DecodeChunk(loc.ctx, IoPread(loc.io), loc.stored_size,
                     uncompressed_size,
                     ntfs_attr_pread(loc.ctx.na, s64(loc.offset),
                                     loc.stored_size, IoFails(loc.io)))

\* read_and_decompress_chunk(ctx, chunk_idx, buffer), buffer being
\* ctx->cached_chunk, its only caller's argument.
\* Returns [ctx, io, ret, errno, read_buffer, codec_args].
read_and_decompress_chunk(ctx, io, chunk_idx) ==
    ReadStoredChunk(get_chunk_location(ctx, io, chunk_idx),
                    ChunkLength(ctx, chunk_idx))

\* A faulty CacheChunk: the index is stored whether the fetch succeeded or not
CacheChunk_Unchecked(r, chunk_idx) ==
    [ctx |-> [r.ctx EXCEPT !.cached_chunk_idx = chunk_idx],
     io |-> r.io, ok |-> r.ret = 0,
     errno |-> IF r.ret # 0 THEN r.errno ELSE NOERR]

\* get_chunk_data after the chunk was fetched, r being the fetch's result
CacheChunk(r, chunk_idx) ==
    IF r.ret # 0
    THEN [ctx |-> r.ctx, io |-> r.io, ok |-> FALSE, errno |-> r.errno]
    ELSE [ctx |-> [r.ctx EXCEPT !.cached_chunk_idx = chunk_idx],
          io |-> r.io, ok |-> TRUE, errno |-> NOERR]

\* A faulty get_chunk_data: the index is not invalidated before the fetch
get_chunk_data_NoInvalidate(ctx, io, chunk_idx) ==
    IF chunk_idx # ctx.cached_chunk_idx
    THEN CacheChunk(read_and_decompress_chunk(ctx, io, chunk_idx), chunk_idx)
    ELSE [ctx |-> ctx, io |-> io, ok |-> TRUE, errno |-> NOERR]

\* A faulty get_chunk_data: the chunk is fetched whether it is the cached
\* one or not
get_chunk_data_AlwaysFetch(ctx, io, chunk_idx) ==
    CacheChunk(read_and_decompress_chunk(
                   [ctx EXCEPT !.cached_chunk_idx = INVALID_CHUNK_INDEX],
                   io, chunk_idx),
               chunk_idx)

\* get_chunk_data(ctx, chunk_idx): ok = FALSE is the NULL return.
\* Returns [ctx, io, ok, errno].
get_chunk_data(ctx, io, chunk_idx) ==
    IF chunk_idx # ctx.cached_chunk_idx
    THEN CacheChunk(read_and_decompress_chunk(
                        [ctx EXCEPT !.cached_chunk_idx = INVALID_CHUNK_INDEX],
                        io, chunk_idx),
                    chunk_idx)
    ELSE [ctx |-> ctx, io |-> io, ok |-> TRUE, errno |-> NOERR]

\* -------------------------------------------------------------- read engine
\* The do-while loop of ntfs_read_system_compressed_data.  out is what has
\* been copied to the caller's buffer (p - buf bytes), remaining is
\* end_p - p.  Returns [ctx, io, out, errno, failed], failed being the chunk
\* whose fetch broke the loop (NoChunk: none).
RECURSIVE ReadLoop(_, _, _, _, _, _, _)

\* A faulty CopyChunk: the copy starts at the chunk's first byte
CopyChunk_FromStart(r, out, remaining, chunk_idx, offset_in_chunk, chunk_size, len_to_copy) ==
    IF ~r.ok
    THEN [ctx |-> r.ctx, io |-> r.io, out |-> out, errno |-> r.errno,
          failed |-> chunk_idx]
    ELSE IF remaining - len_to_copy # 0
    THEN ReadLoop(r.ctx, r.io, out \o SubSeq(r.ctx.cached_chunk, 1, len_to_copy),
                  remaining - len_to_copy, u64(chunk_idx + 1), 0, chunk_size)
    ELSE [ctx |-> r.ctx, io |-> r.io,
          out |-> out \o SubSeq(r.ctx.cached_chunk, 1, len_to_copy),
          errno |-> NOERR, failed |-> NoChunk]

\* One iteration from the chunk's data on, r being what get_chunk_data
\* returned: copy, advance, test the loop condition
CopyChunk(r, out, remaining, chunk_idx, offset_in_chunk, chunk_size, len_to_copy) ==
    IF ~r.ok
    THEN [ctx |-> r.ctx, io |-> r.io, out |-> out, errno |-> r.errno,
          failed |-> chunk_idx]
    ELSE IF remaining - len_to_copy # 0
    THEN ReadLoop(r.ctx, r.io,
                  out \o SubSeq(r.ctx.cached_chunk, offset_in_chunk + 1,
                                offset_in_chunk + len_to_copy),
                  remaining - len_to_copy, u64(chunk_idx + 1), 0, chunk_size)
    ELSE [ctx |-> r.ctx, io |-> r.io,
          out |-> out \o SubSeq(r.ctx.cached_chunk, offset_in_chunk + 1,
                                offset_in_chunk + len_to_copy),
          errno |-> NOERR, failed |-> NoChunk]

\* One iteration once chunk_size is settled for the chunk
FetchChunk(ctx, io, out, remaining, chunk_idx, offset_in_chunk, chunk_size) ==
    CopyChunk(get_chunk_data(ctx, io, chunk_idx), out, remaining, chunk_idx,
              offset_in_chunk, chunk_size,
              min(remaining, u32(chunk_size - offset_in_chunk)))

\* A faulty ReadLoop: the last chunk's length is stored in the context's
\* chunk_size, not in the loop's own
ReadLoop_StoresChunkSize(ctx, io, out, remaining, chunk_idx, offset_in_chunk, chunk_size) ==
    FetchChunk(IF chunk_idx = u64(ctx.num_chunks - 1)
               THEN [ctx EXCEPT !.chunk_size = ChunkLength(ctx, chunk_idx)]
               ELSE ctx,
               io, out, remaining, chunk_idx, offset_in_chunk,
               IF chunk_idx = u64(ctx.num_chunks - 1)
               THEN ChunkLength(ctx, chunk_idx) ELSE chunk_size)

ReadLoop(ctx, io, out, remaining, chunk_idx, offset_in_chunk, chunk_size) ==
    FetchChunk(ctx, io, out, remaining, chunk_idx, offset_in_chunk,
               IF chunk_idx = u64(ctx.num_chunks - 1)
               THEN ChunkLength(ctx, chunk_idx) ELSE chunk_size)

\* A faulty ReadResult: a read whose loop broke reports the failure
ReadResult_FailHard(r) ==
    [ctx |-> r.ctx, io |-> r.io,
     ret |-> IF r.out = <<>> \/ r.failed # NoChunk THEN 0 - 1 ELSE Len(r.out),
     errno |-> r.errno, buf |-> r.out, failed |-> r.failed]

\* What ntfs_read_system_compressed_data returns after its loop
ReadResult(r) ==
    [ctx |-> r.ctx, io |-> r.io,
     ret |-> IF r.out = <<>> THEN 0 - 1 ELSE Len(r.out),
     errno |-> r.errno, buf |-> r.out, failed |-> r.failed]

\* What it returns when it touches nothing
ReadNothing(ctx, failAt, ret, errno) ==
    [ctx |-> ctx, io |-> IoStart(failAt), ret |-> ret, errno |-> errno,
     buf |-> <<>>, failed |-> NoChunk]

\* A faulty ReadClamped: a count of zero enters the loop
ReadClamped_NoZeroCheck(ctx, offset, count, failAt) ==
    ReadResult(ReadLoop(ctx, IoStart(failAt), <<>>, count,
                        shr64(offset, ctx.chunk_order),
                        u32(offset % ctx.chunk_size), ctx.chunk_size))

\* From the clamped count on
ReadClamped(ctx, offset, count, failAt) ==
    IF count = 0 THEN ReadNothing(ctx, failAt, 0, NOERR)
    ELSE ReadResult(ReadLoop(ctx, IoStart(failAt), <<>>, count,
                             shr64(offset, ctx.chunk_order),
                             u32(offset % ctx.chunk_size), ctx.chunk_size))

\* ntfs_read_system_compressed_data(ctx, pos, count, buf); failAt is the
\* environment's choice of the stream read that fails.
\* Returns [ctx, io, ret, errno, buf, failed]: buf is what was written to the
\* caller's buffer.
ntfs_read_system_compressed_data(ctx, pos, count, failAt) ==
    IF ctx = NULL \/ pos < 0
    THEN ReadNothing(ctx, failAt, 0 - 1, "EINVAL")
    ELSE IF u64(pos) >= ctx.uncompressed_size
    THEN ReadNothing(ctx, failAt, 0, NOERR)
    ELSE ReadClamped(ctx, u64(pos),
                     min(count, u64(ctx.uncompressed_size - u64(pos))), failAt)

\* ------------------------------------------------------------ format probe
\* A reparse blob is [reparse_tag, reparse_data_length, body]: body holds the
\* le32 words that follow the 8-byte header (wof.version, wof.provider,
\* file.version, file.compression_format when all are there).
\* The inode is [flags_reparse, rp, data_size, has_wof, wof]: whether it carries
\* FILE_ATTR_REPARSE_POINT, its reparse attribute (NULL: none), the size of
\* its unnamed data stream, whether it has a WofCompressedData stream and
\* the bytes of that stream.
BlobBytes(rp) == SizeofReparsePoint + 4 * Len(rp.body)

KnownFormat(f) ==
    \/ f = FORMAT_XPRESS4K
    \/ f = FORMAT_XPRESS8K
    \/ f = FORMAT_XPRESS16K
    \/ f = FORMAT_LZX

\* A faulty IsWofFileProvider: the provider is not looked at
IsWofFileProvider_AnyProvider(rp, rpbuflen) ==
    /\ rpbuflen >= SizeofWofReparsePoint
    /\ rp.reparse_tag = IO_REPARSE_TAG_WOF
    /\ rp.body[1] = WOF_CURRENT_VERSION
    /\ rp.body[3] = WOF_FILE_PROVIDER_CURRENT_VERSION
    /\ KnownFormat(rp.body[4])

\* Lines 275-283: does the blob rp of rpbuflen bytes denote a system
\* compressed file?
IsWofFileProvider(rp, rpbuflen) ==
    /\ rpbuflen >= SizeofWofReparsePoint
    /\ rp.reparse_tag = IO_REPARSE_TAG_WOF
    /\ rp.body[1] = WOF_CURRENT_VERSION
    /\ rp.body[2] = WOF_PROVIDER_FILE
    /\ rp.body[3] = WOF_FILE_PROVIDER_CURRENT_VERSION
    /\ KnownFormat(rp.body[4])

\* get_compression_format(ni, reparse, &format); rdfail is the environment's
\* choice that reading the reparse attribute fails.
\* Returns [ret, errno, format].
get_compression_format(ni, reparse, rdfail) ==
    IF ni = NULL THEN [ret |-> 0 - 1, errno |-> "EINVAL", format |-> Junk]
    ELSE IF ~ni.flags_reparse
    THEN [ret |-> 0 - 1, errno |-> "EOPNOTSUPP", format |-> Junk]
    ELSE IF reparse = NULL /\ (rdfail \/ ni.rp = NULL)
    THEN [ret |-> 0 - 1, errno |-> IF rdfail THEN "EIO" ELSE "ENOENT",
          format |-> Junk]
    ELSE LET rp == IF reparse # NULL THEN reparse ELSE ni.rp
             rpbuflen == IF reparse # NULL
                         THEN SizeofReparsePoint + reparse.reparse_data_length
                         ELSE BlobBytes(ni.rp)
         IN IF IsWofFileProvider(rp, rpbuflen)
            THEN [ret |-> 0, errno |-> NOERR, format |-> rp.body[4]]
            ELSE [ret |-> 0 - 1, errno |-> "EOPNOTSUPP", format |-> Junk]

\* --------------------------------------------------------- open and close
\* Resources are named; an operation reports the sequence acq of those it
\* acquired and the sequence rel of those it released, in order.
\* free(ptr): nothing when ptr is NULL
Free(ptr, name) == IF ptr = NullBuf THEN <<>> ELSE <<name>>

ErrFreeCtx == <<"ctx">>
ErrFreeDecompressor == <<"decompressor">> \o ErrFreeCtx
\* A faulty err_close_ctx: the named stream is not closed
ErrCloseCtx_LeaksStream(ctx) ==
    Free(ctx.cached_chunk, "cached_chunk") \o Free(ctx.temp_buffer, "temp_buffer")
        \o ErrFreeDecompressor

\* The releases from the label err_close_ctx on
ErrCloseCtx(ctx) ==
    Free(ctx.cached_chunk, "cached_chunk") \o Free(ctx.temp_buffer, "temp_buffer")
        \o <<"na">> \o ErrFreeDecompressor

\* A faulty NewCtx: the number of chunks is the quotient plus one
NewCtx_ExtraChunk(ni, format, temp_buffer, cached_chunk) ==
    LET chunk_order == get_chunk_order(format)
        chunk_size == u32(Pow2(chunk_order))
    IN [na |-> ni.wof,
        format |-> format,
        decompressor |-> "decompressor",
        uncompressed_size |-> ni.data_size,
        compressed_size |-> Len(ni.wof),
        num_chunks |-> u64(shr64(ni.data_size, chunk_order) + 1),
        chunk_order |-> chunk_order,
        chunk_size |-> chunk_size,
        base_chunk_idx |-> INVALID_CHUNK_INDEX,
        base_chunk_offset |-> Junk,
        chunk_offsets |-> [k \in 0..(NUM_CHUNK_OFFSETS - 1) |-> Junk],
        temp_buffer |-> temp_buffer,
        cached_chunk |-> cached_chunk,
        cached_chunk_idx |-> INVALID_CHUNK_INDEX]

\* The context as lines 394-418 leave it, given the two buffers; what
\* malloc returned and the code has not written is indeterminate (Junk).
NewCtx(ni, format, temp_buffer, cached_chunk) ==
    LET chunk_order == get_chunk_order(format)
        chunk_size == u32(Pow2(chunk_order))
    IN [na |-> ni.wof,
        format |-> format,
        decompressor |-> "decompressor",
        uncompressed_size |-> ni.data_size,
        compressed_size |-> Len(ni.wof),
        num_chunks |-> shr64(u64(ni.data_size + chunk_size - 1), chunk_order),
        chunk_order |-> chunk_order,
        chunk_size |-> chunk_size,
        base_chunk_idx |-> INVALID_CHUNK_INDEX,
        base_chunk_offset |-> Junk,
        chunk_offsets |-> [k \in 0..(NUM_CHUNK_OFFSETS - 1) |-> Junk],
        temp_buffer |-> temp_buffer,
        cached_chunk |-> cached_chunk,
        cached_chunk_idx |-> INVALID_CHUNK_INDEX]

\* A failed open: errno, what was acquired, what was released
OpenFails(e, acq, rel) == [ctx |-> NULL, errno |-> e, acq |-> acq, rel |-> rel]

\* A faulty OpenBuffers: the allocations are not tested
OpenBuffers_Unchecked(ni, format, temp_buffer, cached_chunk) ==
    [ctx |-> NewCtx(ni, format, temp_buffer, cached_chunk),
     errno |-> NOERR,
     acq |-> <<"ctx", "decompressor", "na">>
                 \o Free(temp_buffer, "temp_buffer")
                 \o Free(cached_chunk, "cached_chunk"),
     rel |-> <<>>]

\* The open from the two buffer allocations on
OpenBuffers(ni, format, temp_buffer, cached_chunk) ==
    IF temp_buffer = NullBuf \/ cached_chunk = NullBuf
    THEN OpenFails("ENOMEM",
                   <<"ctx", "decompressor", "na">>
                       \o Free(temp_buffer, "temp_buffer")
                       \o Free(cached_chunk, "cached_chunk"),
                   ErrCloseCtx(NewCtx(ni, format, temp_buffer, cached_chunk)))
    ELSE [ctx |-> NewCtx(ni, format, temp_buffer, cached_chunk),
          errno |-> NOERR,
          acq |-> <<"ctx", "decompressor", "na", "temp_buffer", "cached_chunk">>,
          rel |-> <<>>]

\* The open from the probe's result on
OpenProbed(ni, probe, env) ==
    IF probe.ret # 0 THEN OpenFails(probe.errno, <<>>, <<>>)
    ELSE IF "ctx" \in env.nomem THEN OpenFails("ENOMEM", <<>>, <<>>)
    ELSE IF "decompressor" \in env.nomem
    THEN OpenFails("ENOMEM", <<"ctx">>, ErrFreeCtx)
    ELSE IF ~ni.has_wof \/ env.nafail
    THEN OpenFails(IF env.nafail THEN "EIO" ELSE "ENOENT",
                   <<"ctx", "decompressor">>, ErrFreeDecompressor)
    ELSE OpenBuffers(ni, probe.format,
                     IF "temp_buffer" \in env.nomem THEN NullBuf
                     ELSE Repeat(Junk,
                                 max(u32(Pow2(get_chunk_order(probe.format))),
                                     NUM_CHUNK_OFFSETS * SizeofU64)),
                     IF "cached_chunk" \in env.nomem THEN NullBuf
                     ELSE Repeat(Junk, u32(Pow2(get_chunk_order(probe.format)))))

\* ntfs_open_system_decompression_ctx(ni, reparse).  env is the
\* environment's choice of what fails: env.rdfail the reparse attribute
\* read, env.nomem the set of allocations that return NULL, env.nafail
\* opening the named stream.
\* Returns [ctx, errno, acq, rel]; ctx = NULL is the failure.
ntfs_open_system_decompression_ctx(ni, reparse, env) ==
    OpenProbed(ni, get_compression_format(ni, reparse, env.rdfail), env)

\* A faulty close: the decompressor is not freed
ntfs_close_system_decompression_ctx_NoCodec(ctx) ==
    IF ctx # NULL
    THEN Free(ctx.cached_chunk, "cached_chunk")
             \o Free(ctx.temp_buffer, "temp_buffer")
             \o <<"na">> \o <<"ctx">>
    ELSE <<>>

\* ntfs_close_system_decompression_ctx(ctx): the sequence of releases
ntfs_close_system_decompression_ctx(ctx) ==
    IF ctx # NULL
    THEN Free(ctx.cached_chunk, "cached_chunk")
             \o Free(ctx.temp_buffer, "temp_buffer")
             \o <<"na">> \o <<"decompressor">> \o <<"ctx">>
    ELSE <<>>

\* ntfs_get_system_compressed_file_size(ni, reparse).  env.rdfail as above;
\* env.nomem may hold "actx", the attribute search context.
\* Returns [ret, errno].
SizeProbed(ni, probe, env) ==
    IF probe.ret # 0 THEN [ret |-> 0 - 1, errno |-> probe.errno]
    ELSE IF "actx" \in env.nomem THEN [ret |-> 0 - 1, errno |-> "ENOMEM"]
    ELSE IF ~ni.has_wof THEN [ret |-> 0 - 1, errno |-> "ENOENT"]
    ELSE [ret |-> Len(ni.wof), errno |-> NOERR]

ntfs_get_system_compressed_file_size(ni, reparse, env) ==
    SizeProbed(ni, get_compression_format(ni, reparse, env.rdfail), env)

\* ------------------------------------------------------ plugin callbacks
O_RDONLY == 0
O_ACCMODE == 3

ErrnoValue(e) ==
    CASE e = "ENOENT" -> 2
      [] e = "EIO" -> 5
      [] e = "ENOMEM" -> 12
      [] e = "EINVAL" -> 22
      [] e = "EOPNOTSUPP" -> 95
      [] OTHER -> 0

\* compressed_getattr from the size query on, r being what it returned
GetattrSized(ni, r) ==
    IF r.ret >= 0
    THEN [ret |-> 0, errno |-> r.errno, st_size |-> ni.data_size,
          st_blocks |-> (r.ret + 511) \div 512]
    ELSE [ret |-> 0 - ErrnoValue(r.errno), errno |-> r.errno,
          st_size |-> Junk, st_blocks |-> Junk]

\* compressed_getattr(ni, reparse, stbuf).  Returns [ret, errno, st_size,
\* st_blocks]; the sizes are Junk when stbuf is left alone.
compressed_getattr(ni, reparse, env) ==
    GetattrSized(ni, ntfs_get_system_compressed_file_size(ni, reparse, env))

\* compressed_open from the engine's open on, r being what it returned
OpenStored(r, fi, handle) ==
    IF r.ctx = NULL
    THEN [ret |-> 0 - ErrnoValue(r.errno), errno |-> r.errno,
          fh |-> fi.fh, ctx |-> NULL, acq |-> r.acq, rel |-> r.rel,
          probed |-> TRUE]
    ELSE [ret |-> 0, errno |-> NOERR, fh |-> handle, ctx |-> r.ctx,
          acq |-> r.acq, rel |-> r.rel, probed |-> TRUE]

\* A faulty compressed_open: the access mode is not looked at
compressed_open_AnyMode(ni, reparse, fi, env, handle) ==
    OpenStored(ntfs_open_system_decompression_ctx(ni, reparse, env), fi, handle)

\* compressed_open(ni, reparse, fi).  fi is [flags, fh]; handle is the
\* address a new context gets.  Returns [ret, errno, fh, ctx, acq, rel,
\* probed]: the slot and the context afterwards, and whether the engine's
\* open was called at all.
compressed_open(ni, reparse, fi, env, handle) ==
    IF fi.flags % (O_ACCMODE + 1) # O_RDONLY
    THEN [ret |-> 0 - ErrnoValue("EOPNOTSUPP"), errno |-> NOERR, fh |-> fi.fh,
          ctx |-> NULL, acq |-> <<>>, rel |-> <<>>, probed |-> FALSE]
    ELSE OpenStored(ntfs_open_system_decompression_ctx(ni, reparse, env),
                    fi, handle)

\* A faulty compressed_release: the context is not closed
compressed_release_NoClose(fi, dctx) ==
    [ret |-> 0, fh |-> fi.fh, rel |-> <<>>]

\* compressed_release(ni, reparse, fi), dctx being DECOMPRESSION_CTX(fi).
\* Returns [ret, fh, rel].
compressed_release(fi, dctx) ==
    [ret |-> 0, fh |-> fi.fh, rel |-> ntfs_close_system_decompression_ctx(dctx)]

\* compressed_read(ni, reparse, buf, size, offset, fi), dctx being
\* DECOMPRESSION_CTX(fi).  Every failure of the engine sets errno.
\* Returns the engine's record with res the engine's return value and ret
\* the callback's.
ReadReturned(r) ==
    [ctx |-> r.ctx, io |-> r.io, res |-> r.ret, errno |-> r.errno,
     buf |-> r.buf, failed |-> r.failed,
     ret |-> IF r.ret < 0 THEN 0 - ErrnoValue(r.errno) ELSE r.ret]

compressed_read(dctx, size, offset, failAt) ==
    ReadReturned(ntfs_read_system_compressed_data(dctx, offset, size, failAt))

\* ------------------------------------------------------------ the files
\* A reference plaintext of n bytes with runs of equal bytes in it
Pattern(i) == ((i \div 3) + (i \div 5)) % (ByteMod - 1)
Plain(n) == [i \in 1..n |-> Pattern(i)]

WofBlob(format) ==
    [reparse_tag |-> IO_REPARSE_TAG_WOF, reparse_data_length |-> 16,
     body |-> <<WOF_CURRENT_VERSION, WOF_PROVIDER_FILE,
                WOF_FILE_PROVIDER_CURRENT_VERSION, format>>]

Inode(format, size, stream) ==
    [flags_reparse |-> TRUE, rp |-> WofBlob(format), data_size |-> size,
     has_wof |-> TRUE, wof |-> stream]

\* The well-formed file of the given format and size
SoundInode(format, size, squeeze) ==
    Inode(format, size, WofStream(format, Plain(size), squeeze))

ChunkSizeOf(format) == Pow2(get_chunk_order(format))

\* The largest file of a format: MaxChunks chunks, the last one short
LongSize(format) == MaxChunks * ChunkSizeOf(format) - 1

\* Damaged streams: the stream cut to len bytes, one byte of it (1-based)
\* set to b, entry k (1-based) of its table set to value
Cut(inode, len) == [inode EXCEPT !.wof = Take(@, len)]
Poke(inode, at, b) == [inode EXCEPT !.wof = [@ EXCEPT ![at] = b]]
SetEntry(inode, k, value) ==
    [inode EXCEPT !.wof =
        Take(@, (k - 1) * EntryBytes(inode.data_size))
        \o cpu_to_le(value, EntryBytes(inode.data_size))
        \o Drop(@, k * EntryBytes(inode.data_size))]

\* The size of the chunk offset table of a file
TableBytes(format, size) ==
    (NumChunksOf(size, get_chunk_order(format)) - 1) * EntryBytes(size)

\* The long file damaged in its second chunk or its last: the table cut
\* inside its last entry; the payload cut inside the second chunk; the
\* second chunk's stored size made zero, negative, and larger than a chunk;
\* the last byte of the second chunk and of the last chunk turned into a
\* code the codec rejects; the unnamed stream longer than the table allows;
\* the second chunk's offset made larger than the last chunk's, which
\* stays where the table says
DamagedInodes ==
    LET f == FORMAT_XPRESS4K
        base == SoundInode(f, LongSize(f), TRUE)
        table == TableBytes(f, LongSize(f))
        stored == StoredChunks(f, Plain(LongSize(f)), TRUE)
        start1 == SumLen(stored, 1)
        start2 == SumLen(stored, 2)
    IN {Cut(base, table - 1),
        Cut(base, table + start1 + 1),
        SetEntry(base, 2, start1),
        SetEntry(base, 2, start1 - 1),
        SetEntry(base, 2, start1 + ChunkSizeOf(f) + 1),
        Poke(base, table + start2, ByteMod - 1),
        Poke(base, Len(base.wof), ByteMod - 1),
        [base EXCEPT !.data_size = @ + 2],
        SetEntry(base, 1, start2 + 1)}

\* The smallest file whose offset table has 64-bit entries, when the scale
\* makes it one of few chunks
HugeInodes ==
    IF NumChunksOf(UINT32_MAX + 2, get_chunk_order(FORMAT_LZX)) <= MaxHugeChunks
    THEN {SoundInode(FORMAT_LZX, UINT32_MAX + 2, TRUE)}
    ELSE {}

\* Files of one chunk, which have no offset table: a full chunk and a
\* short one
SingleChunkInodes ==
    {SoundInode(FORMAT_XPRESS4K, ChunkSizeOf(FORMAT_XPRESS4K), TRUE),
     SoundInode(FORMAT_XPRESS8K, 5, TRUE)}

LongInodes ==
    HugeInodes \cup
    {SoundInode(FORMAT_XPRESS4K, LongSize(FORMAT_XPRESS4K), TRUE),
     SoundInode(FORMAT_XPRESS4K, LongSize(FORMAT_XPRESS4K) + 1, FALSE),
     SoundInode(FORMAT_XPRESS8K, 2 * ChunkSizeOf(FORMAT_XPRESS8K) + 1, TRUE),
     SoundInode(FORMAT_LZX, ChunkSizeOf(FORMAT_LZX) + 3, TRUE)}
    \cup DamagedInodes

\* Files that are not system compressed, or lack the named stream
OtherInodes ==
    LET base == SoundInode(FORMAT_XPRESS4K, 3, TRUE)
    IN {[base EXCEPT !.flags_reparse = FALSE],
        [base EXCEPT !.rp = NULL],
        [base EXCEPT !.rp.reparse_tag = "0xA000000C"],
        [base EXCEPT !.rp.body[4] = 4],
        [base EXCEPT !.has_wof = FALSE, !.wof = <<>>]}

ShortInodes ==
    {SoundInode(FORMAT_XPRESS4K, n, TRUE) :
        n \in {0, 1, ChunkSizeOf(FORMAT_XPRESS4K) + 1}}
    \cup {SoundInode(FORMAT_LZX, 3, TRUE)}
    \cup OtherInodes

\* Inodes for the probe: blobs of every length, tag, version, provider and
\* format, with and without the reparse flag; no inode at all
ProbeBlobs ==
    {[reparse_tag |-> t, reparse_data_length |-> 4 * Len(b), body |-> b] :
        t \in {IO_REPARSE_TAG_WOF, "0x00000000", "0xA000000C"},
        b \in UNION {[1..n -> {WOF_CURRENT_VERSION}] : n \in 0..3}
              \cup {<<wv, wp, fv, cf>> :
                      wv \in {0, WOF_CURRENT_VERSION, 2},
                      wp \in {WOF_PROVIDER_WIM, WOF_PROVIDER_FILE},
                      fv \in {0, WOF_FILE_PROVIDER_CURRENT_VERSION, 2},
                      cf \in 0..4}
              \cup {<<WOF_CURRENT_VERSION, WOF_PROVIDER_FILE,
                       WOF_FILE_PROVIDER_CURRENT_VERSION, cf, 0>> :
                      cf \in {FORMAT_LZX, 5}}}

ProbeInodes ==
    {[flags_reparse |-> fl, rp |-> b, data_size |-> 3, has_wof |-> TRUE,
           wof |-> <<1, 2>>] : fl \in BOOLEAN, b \in ProbeBlobs \cup {NULL}}
    \cup {[flags_reparse |-> TRUE, rp |-> WofBlob(FORMAT_LZX), data_size |-> 3,
           has_wof |-> FALSE, wof |-> <<>>],
          \* a blob whose header declares less data than the attribute holds
          [flags_reparse |-> TRUE,
           rp |-> [WofBlob(FORMAT_XPRESS8K) EXCEPT !.reparse_data_length = 12],
           data_size |-> 3, has_wof |-> TRUE, wof |-> <<1, 2>>]}

\* ------------------------------------------------------------- the state
VARIABLES
    ni,     \* the inode the host passes to every callback
    fh,     \* fi->fh, the file-handle slot: 0 or the handle of a context
    ctx,    \* the fields of the context that is open (NULL: none is)
    life,   \* per context handle: "Uninit", "Opened" or "Closed"
    held,   \* the resources acquired and not yet released
    last    \* the last callback: its arguments, its results, what it did

vars == <<ni, fh, ctx, life, held, last>>

Handles == 1..MaxOpens
Range(seq) == {seq[i] : i \in 1..Len(seq)}

NoCall ==
    [op |-> "none", ret |-> 0, flags |-> 0, pre_fh |-> 0, pos |-> 0,
     count |-> 0, buf |-> <<>>, preads |-> 0, refills |-> 0, codecs |-> 0,
     injected |-> FALSE, failed |-> NoChunk, acq |-> <<>>, rel |-> <<>>,
     probed |-> FALSE, errno |-> NOERR, cbret |-> 0]

Init ==
    /\ ni \in ShortInodes
    /\ fh = 0
    /\ ctx = NULL
    /\ life = [h \in Handles |-> "Uninit"]
    /\ held = {}
    /\ last = NoCall

\* The environment's choices of what fails in an open or a getattr
\* (one thing fails, or both buffer allocations do: a call ends at its
\* first failure, but for the two buffers, which are tested together)
Env(rdfail, nafail, nomem) ==
    [rdfail |-> rdfail, nafail |-> nafail, nomem |-> nomem]
Envs ==
    {Env(FALSE, FALSE, {}), Env(TRUE, FALSE, {}), Env(FALSE, TRUE, {}),
     Env(FALSE, FALSE, {"temp_buffer", "cached_chunk"})}
    \cup {Env(FALSE, FALSE, {m}) :
            m \in {"ctx", "decompressor", "temp_buffer", "cached_chunk", "actx"}}

\* fi->flags: the three access modes, alone and with another flag bit set
OpenFlags == {0, 1, 2, 4}

\* The arguments the host reads with, as <<pos, count>>: from every
\* chunk's start one byte, a chunk and a byte, and everything; across the
\* first chunk boundary; the last byte; no byte; at and past the end of the
\* file; a negative position
ReadArgs(c) ==
    IF c = NULL THEN {<<0, 1>>, <<0 - 1, 1>>}
    ELSE LET size == c.uncompressed_size
             cs == c.chunk_size
         IN ({k * cs : k \in 0..(c.num_chunks - 1)}
                 \X {1, cs + 1, UINT64_MAX})
            \cup {<<cs - 1, 2>>, <<size - 1, UINT64_MAX>>, <<0, 0>>,
                  <<size, 0>>, <<size, 1>>, <<size + 1, UINT64_MAX>>,
                  <<0 - 1, 1>>}
FailAts == 0..MaxFailAt

\* The slot refers to no context, or to an open one: the host calls read
\* and release on a slot at most until its release.
SlotOpen == IF fh = 0 THEN FALSE ELSE life[fh] = "Opened"
SlotUsable == fh = 0 \/ SlotOpen
SlotCtx == IF fh = 0 THEN NULL ELSE ctx

\* What a callback leaves behind, r being what it returned
GetattrDone(r) ==
    last' = [NoCall EXCEPT !.op = "getattr", !.cbret = r.ret,
                           !.errno = r.errno, !.pre_fh = fh]

OpenDone(r, flags, h) ==
    /\ fh' = r.fh
    /\ ctx' = r.ctx
    /\ life' = IF r.ctx # NULL THEN [life EXCEPT ![h] = "Opened"] ELSE life
    /\ held' = (held \cup Range(r.acq)) \ Range(r.rel)
    /\ last' = [NoCall EXCEPT !.op = "open", !.cbret = r.ret, !.errno = r.errno,
                              !.flags = flags, !.pre_fh = fh, !.acq = r.acq,
                              !.rel = r.rel, !.probed = r.probed]

ReadDone(r, pos, count, failAt) ==
    /\ ctx' = r.ctx
    /\ last' = [NoCall EXCEPT !.op = "read", !.ret = r.res, !.cbret = r.ret,
                              !.errno = r.errno, !.pre_fh = fh, !.pos = pos,
                              !.count = count, !.buf = r.buf,
                              !.preads = r.io.preads,
                              !.refills = r.io.refills,
                              !.codecs = r.io.codecs,
                              !.injected = (failAt # 0 /\ failAt <= r.io.preads),
                              !.failed = r.failed]

ReleaseDone(r) ==
    /\ fh' = r.fh
    /\ ctx' = NULL
    /\ life' = IF fh # 0 THEN [life EXCEPT ![fh] = "Closed"] ELSE life
    /\ held' = held \ Range(r.rel)
    /\ last' = [NoCall EXCEPT !.op = "release", !.cbret = r.ret,
                              !.pre_fh = fh, !.rel = r.rel]

\* The host calls getattr on the inode
PluginGetattr ==
    \E given \in BOOLEAN, env \in Envs :
        /\ given => ni.rp # NULL
        /\ GetattrDone(compressed_getattr(ni, IF given THEN ni.rp ELSE NULL, env))
        /\ UNCHANGED <<ni, fh, ctx, life, held>>

\* The host calls open on a slot that refers to no open context
PluginOpen ==
    \E flags \in OpenFlags, given \in BOOLEAN, env \in Envs, h \in Handles :
        /\ ~SlotOpen
        /\ life[h] = "Uninit"
        /\ \A g \in Handles : g < h => life[g] # "Uninit"
        /\ given => ni.rp # NULL
        /\ OpenDone(compressed_open(ni, IF given THEN ni.rp ELSE NULL,
                                    [flags |-> flags, fh |-> fh], env, h),
                    flags, h)
        /\ UNCHANGED ni

\* The host calls read on the slot
PluginRead ==
    \E arg \in ReadArgs(SlotCtx), failAt \in FailAts :
        /\ SlotUsable
        /\ ReadDone(compressed_read(SlotCtx, arg[2], arg[1], failAt),
                    arg[1], arg[2], failAt)
        /\ UNCHANGED <<ni, fh, life, held>>

\* The host calls release on the slot
PluginRelease ==
    /\ SlotUsable
    /\ ReleaseDone(compressed_release([flags |-> 0, fh |-> fh], SlotCtx))
    /\ UNCHANGED ni

Next == PluginOpen \/ PluginRead \/ PluginRelease

\* The plugin over the short files and the files that are not system
\* compressed: every callback sequence the host may issue on the slot
Spec == Init /\ [][Next]_vars

\* The read engine over the long files, sound and damaged, and the files
\* of one chunk, on the last
\* context the model has room for (earlier ones have come and gone)
InitRead ==
    /\ ni \in LongInodes \cup SingleChunkInodes
    /\ fh = 0
    /\ ctx = NULL
    /\ life = [h \in Handles |-> IF h < MaxOpens THEN "Closed" ELSE "Uninit"]
    /\ held = {}
    /\ last = NoCall

SpecRead == InitRead /\ [][Next]_vars

\* The format probe, through getattr, over reparse blobs of every kind
InitProbe ==
    /\ ni \in ProbeInodes
    /\ fh = 0
    /\ ctx = NULL
    /\ life = [h \in Handles |-> "Uninit"]
    /\ held = {}
    /\ last = NoCall

NextProbe == PluginGetattr

SpecProbe == InitProbe /\ [][NextProbe]_vars

\* ------------------------------------------------- the reference decoder
\* The file decoded straight from its stream, chunk by chunk, with no
\* window and no cache: entry k of the table is read where it lies.
RefFormat(inode) == inode.rp.body[4]
RefChunkSize(inode) == Pow2(get_chunk_order(RefFormat(inode)))
RefNumChunks(inode) ==
    (inode.data_size + RefChunkSize(inode) - 1) \div RefChunkSize(inode)
RefTableLen(inode) == (RefNumChunks(inode) - 1) * EntryBytes(inode.data_size)

\* Where chunk k starts, from the end of the table (k = number of chunks:
\* where the stream ends)
RefStart(inode, k) ==
    IF k = 0 THEN 0
    ELSE IF k = RefNumChunks(inode) THEN Len(inode.wof) - RefTableLen(inode)
    ELSE le_to_cpu(SubSeq(inode.wof, (k - 1) * EntryBytes(inode.data_size) + 1,
                          k * EntryBytes(inode.data_size)))

RefChunkLen(inode, k) ==
    IF k = RefNumChunks(inode) - 1
    THEN inode.data_size - k * RefChunkSize(inode)
    ELSE RefChunkSize(inode)

RefStored(inode, k) ==
    SubSeq(inode.wof, RefTableLen(inode) + RefStart(inode, k) + 1,
           RefTableLen(inode) + RefStart(inode, k + 1))

\* Chunk k is stored whole inside the stream, no longer than it decodes
\* to, and decodes
ChunkIntact(inode, k) ==
    /\ Len(inode.wof) >= RefTableLen(inode)
    /\ RefStart(inode, k) < RefStart(inode, k + 1)
    /\ RefStart(inode, k + 1) <= Len(inode.wof) - RefTableLen(inode)
    /\ RefStart(inode, k + 1) - RefStart(inode, k) <= RefChunkLen(inode, k)
    /\ \/ RefStart(inode, k + 1) - RefStart(inode, k) = RefChunkLen(inode, k)
       \/ decompress(RefFormat(inode), RefStored(inode, k),
                     RefChunkLen(inode, k)).ret = 0

RefChunk(inode, k) ==
    IF Len(RefStored(inode, k)) = RefChunkLen(inode, k) THEN RefStored(inode, k)
    ELSE decompress(RefFormat(inode), RefStored(inode, k),
                    RefChunkLen(inode, k)).out

\* A well-formed file: a system-compressed inode with its named stream,
\* every chunk of it intact
WellFormed(inode) ==
    /\ inode.flags_reparse
    /\ inode.rp # NULL
    /\ inode.has_wof
    /\ BlobBytes(inode.rp) >= 24
    /\ inode.rp.reparse_tag = "0xC0000017"
    /\ SubSeq(inode.rp.body, 1, 3) = <<1, 2, 1>>
    /\ inode.rp.body[4] \in 0..3
    /\ \A k \in 0..(RefNumChunks(inode) - 1) : ChunkIntact(inode, k)

RefPlain(inode) ==
    Concat([k \in 1..RefNumChunks(inode) |-> RefChunk(inode, k - 1)])

\* The last callback was a read on an open context
ReadOnOpen == last.op = "read" /\ last.pre_fh # 0

AllResources == {"ctx", "decompressor", "na", "temp_buffer", "cached_chunk"}

Reverse(seq) == [i \in 1..Len(seq) |-> seq[Len(seq) + 1 - i]]
NoRepeats(seq) == Cardinality(Range(seq)) = Len(seq)

\* ------------------------------------------------------------ properties
\* C1: on a well-formed file with no I/O error, a read at 0 <= pos < size
\* with count > 0, in whatever state earlier reads left the context,
\* returns min(count, size - pos) and delivers that slice of the reference.
C1_ReadCorrect ==
    (/\ ReadOnOpen
     /\ ~last.injected
     /\ last.pos >= 0
     /\ last.pos < ni.data_size
     /\ last.count > 0
     /\ WellFormed(ni))
    => /\ last.ret = min(last.count, ni.data_size - last.pos)
       /\ last.buf = SubSeq(RefPlain(ni), last.pos + 1, last.pos + last.ret)

\* A read over several chunks, one of them decoded by the codec, served
\* from the window an earlier read loaded
C1_Witness ==
    /\ ReadOnOpen
    /\ WellFormed(ni)
    /\ ~last.injected
    /\ last.ret > ctx.chunk_size
    /\ last.codecs >= 1
    /\ last.refills = 0
    /\ last.pos > 0

\* C2: a read in which the fetch of a chunk fails returns -1 when that is
\* the first chunk of the read, and otherwise the positive number of bytes
\* of the range that lie in the chunks before the failing one, which are
\* the bytes delivered; a read that delivered a byte returns their number.
C2_PartialSuccess ==
    ReadOnOpen =>
        /\ last.buf # <<>> => last.ret = Len(last.buf) /\ last.cbret = last.ret
        /\ last.failed # NoChunk =>
            IF last.failed = last.pos \div ctx.chunk_size
            THEN last.ret = 0 - 1 /\ last.buf = <<>> /\ last.cbret < 0
            ELSE /\ last.ret = last.failed * ctx.chunk_size - last.pos
                 /\ last.ret > 0
                 /\ Len(last.buf) = last.ret
                 /\ \A j \in (last.pos \div ctx.chunk_size)..(last.failed - 1) :
                       ChunkIntact(ni, j) =>
                           SubSeq(last.buf,
                                  max(j * ctx.chunk_size, last.pos) - last.pos + 1,
                                  (j + 1) * ctx.chunk_size - last.pos)
                           = SubSeq(RefChunk(ni, j),
                                    max(last.pos - j * ctx.chunk_size, 0) + 1,
                                    ctx.chunk_size)

\* A read of a damaged file, with no I/O error, that stopped at a later
\* chunk and returned what it had
C2_Witness ==
    /\ ReadOnOpen
    /\ ~last.injected
    /\ last.failed # NoChunk
    /\ last.failed > last.pos \div ctx.chunk_size
    /\ last.ret > 0

\* C3: on an open context, for pos >= 0, a read of no byte and a read at
\* or past the end of the file return 0, with no error and no byte.
C3_EmptyReads ==
    (/\ ReadOnOpen
     /\ last.pos >= 0
     /\ last.count = 0 \/ last.pos >= ni.data_size)
    => /\ last.ret = 0
       /\ last.cbret = 0
       /\ last.errno = NOERR
       /\ last.buf = <<>>

\* A read of bytes past the end of a file that is not empty
C3_Witness ==
    /\ ReadOnOpen
    /\ ni.data_size > 0
    /\ last.pos > ni.data_size
    /\ last.count > 0
    /\ last.ret = 0

\* The cuts the slicing law is tried at: the file's ends, the first chunk
\* boundaries and the bytes next to them
Cuts(c) ==
    {0, 1, c.chunk_size, c.chunk_size + 1, 2 * c.chunk_size,
     c.uncompressed_size}
    \cap 0..c.uncompressed_size

\* What a read delivers without I/O error
ReadBytes(c, pos, count) == ntfs_read_system_compressed_data(c, pos, count, 0)

\* C4: on a well-formed file, in every state of the context, the bytes of
\* read(a, k) then of read(a + k, b - a - k) are the bytes of read(a, b - a).
C4_Slicing ==
    (SlotOpen /\ WellFormed(ni)) =>
        \A a \in Cuts(ctx), b \in Cuts(ctx) :
            a <= b =>
                \A m \in Cuts(ctx) :
                    (a <= m /\ m <= b) =>
                        ReadBytes(ctx, a, m - a).buf
                            \o ReadBytes(ReadBytes(ctx, a, m - a).ctx, m, b - m).buf
                        = ReadBytes(ctx, a, b - a).buf

\* A context with a chunk cached, on which a read from inside the first
\* chunk to the end splits inside the second chunk into two reads that
\* deliver bytes
C4_Witness ==
    /\ SlotOpen
    /\ WellFormed(ni)
    /\ ctx.num_chunks >= 3
    /\ ctx.cached_chunk_idx # INVALID_CHUNK_INDEX
    /\ Len(ReadBytes(ctx, 1, ctx.chunk_size).buf) = ctx.chunk_size
    /\ ReadBytes(ctx, 1, ctx.chunk_size).buf
           \o ReadBytes(ReadBytes(ctx, 1, ctx.chunk_size).ctx,
                        ctx.chunk_size + 1, UINT64_MAX).buf
       = ReadBytes(ctx, 1, UINT64_MAX).buf

\* C5: a context goes from Uninit to Opened by a successful open and from
\* Opened to Closed by the release of its slot, and changes in no other
\* way: a failed open yields no context, a read changes no context's
\* state, a Closed context stays Closed.
C5_Lifecycle ==
    [][/\ \A h \in Handles :
              life'[h] # life[h] =>
                  \/ /\ life[h] = "Uninit"
                     /\ life'[h] = "Opened"
                     /\ last'.op = "open"
                     /\ last'.cbret = 0
                     /\ fh' = h
                     /\ held' = AllResources
                  \/ /\ life[h] = "Opened"
                     /\ life'[h] = "Closed"
                     /\ last'.op = "release"
                     /\ last'.pre_fh = h
       /\ (last'.op = "open" /\ last'.cbret # 0) =>
              life' = life /\ ctx' = NULL /\ held' = {}
       /\ last'.op = "read" => life' = life
      ]_vars

\* A second context open after the first was closed, a read on it failed
C5_Witness ==
    /\ \E h \in Handles : life[h] = "Closed"
    /\ \E h \in Handles : life[h] = "Opened"
    /\ last.op = "read"
    /\ last.ret = 0 - 1
    /\ last.pre_fh # 0

\* C6 (as amended): after release the context the slot referred to is
\* closed, all of its resources released; release returns 0 in every case;
\* the slot still holds the handle it held.
C6_ReleaseCloses ==
    last.op = "release" =>
        /\ last.cbret = 0
        /\ fh = last.pre_fh
        /\ ctx = NULL
        /\ held = {}
        /\ last.pre_fh # 0 =>
               life[last.pre_fh] = "Closed" /\ Range(last.rel) = AllResources

\* The release of a slot that referred to an open context
C6_Witness ==
    /\ last.op = "release"
    /\ last.pre_fh # 0
    /\ life[last.pre_fh] = "Closed"
    /\ fh = last.pre_fh

\* C6 as stated: after release the context is closed, the slot no longer
\* holds its handle, and release returned 0.
C6_SlotCleared ==
    (last.op = "release" /\ last.pre_fh # 0) =>
        /\ last.cbret = 0
        /\ life[last.pre_fh] = "Closed"
        /\ fh # last.pre_fh

\* C7: open with an access mode other than read-only returns -EOPNOTSUPP
\* with no probe, no allocation and the slot as it was; read-only, it
\* returns 0 with the new context in the slot exactly when the context was
\* constructed, and otherwise the construction's error with the slot as it
\* was.
C7_OpenModes ==
    last.op = "open" =>
        IF last.flags % 4 # 0
        THEN /\ last.cbret = 0 - 95
             /\ ~last.probed
             /\ last.acq = <<>>
             /\ fh = last.pre_fh
             /\ ctx = NULL
        ELSE /\ last.probed
             /\ last.cbret = 0 <=> (Range(last.acq) = AllResources
                                    /\ last.rel = <<>>)
             /\ last.cbret = 0 =>
                    /\ fh # last.pre_fh
                    /\ fh \in Handles
                    /\ life[fh] = "Opened"
                    /\ ctx # NULL
             /\ last.cbret # 0 =>
                    /\ fh = last.pre_fh
                    /\ ctx = NULL
                    /\ last.errno # NOERR
                    /\ last.cbret = 0 - ErrnoValue(last.errno)

\* An open for reading and writing of a well-formed file, refused
C7_Witness ==
    /\ last.op = "open"
    /\ last.flags = 2
    /\ last.cbret = 0 - 95
    /\ WellFormed(ni)

\* The blob the probe looks at and the length it takes it to have: the
\* caller's with the length its header declares, or the attribute's
ProbedLen(inode, given) ==
    IF given THEN 8 + inode.rp.reparse_data_length ELSE BlobBytes(inode.rp)

\* The conditions of the claim, in its words
IsSystemCompressed(inode, given) ==
    /\ inode.flags_reparse
    /\ ProbedLen(inode, given) >= 24
    /\ inode.rp.reparse_tag = "0xC0000017"
    /\ inode.rp.body[1] = 1
    /\ inode.rp.body[2] = 2
    /\ inode.rp.body[3] = 1
    /\ inode.rp.body[4] \in {0, 1, 2, 3}

\* The probe of the state's inode, with the caller's blob or without, the
\* attribute read failing or not
ProbeCases ==
    {[given |-> g, rdfail |-> f,
      r |-> get_compression_format(ni, IF g THEN ni.rp ELSE NULL, f)] :
        g \in {x \in BOOLEAN : x => ni.rp # NULL}, f \in BOOLEAN}

\* The reparse attribute had to be read and could not be
ReadFailed(c) ==
    ni.flags_reparse /\ ~c.given /\ (c.rdfail \/ ni.rp = NULL)

\* C8: the probe returns a format exactly for a blob it could look at
\* that meets the conditions, and then the blob's compression_format;
\* every other blob yields EOPNOTSUPP; any other error comes only from a
\* failed read of the reparse attribute.  getattr reports accordingly.
C8_Probe ==
    /\ \A c \in ProbeCases :
          /\ c.r.ret = 0 <=> (~ReadFailed(c) /\ IsSystemCompressed(ni, c.given))
          /\ c.r.ret = 0 => c.r.format = ni.rp.body[4] /\ c.r.errno = NOERR
          /\ c.r.ret # 0 =>
                 /\ c.r.ret = 0 - 1
                 /\ ~ReadFailed(c) => c.r.errno = "EOPNOTSUPP"
                 /\ ReadFailed(c) => c.r.errno \in {"EIO", "ENOENT"}
    /\ last.op = "getattr" =>
          /\ last.cbret = 0 =>
                 ni.rp # NULL /\ \E g \in BOOLEAN : IsSystemCompressed(ni, g)
          /\ last.cbret = 0 - 95 =>
                 \/ ~ni.flags_reparse
                 \/ ni.rp # NULL /\ \E g \in BOOLEAN : ~IsSystemCompressed(ni, g)

\* getattr succeeded on an LZX file, whose blob the probe accepts
C8_Witness ==
    /\ last.op = "getattr"
    /\ last.cbret = 0
    /\ ni.rp.body[4] = FORMAT_LZX
    /\ \E c \in ProbeCases : c.r.ret = 0 /\ c.r.format = FORMAT_LZX

\* C9: a failed open returns no context and has released what it had
\* acquired, each resource once, in the reverse of the order of
\* acquisition; nothing stays held.
C9_FailedOpenReleases ==
    (last.op = "open" /\ last.cbret # 0) =>
        /\ ctx = NULL
        /\ last.rel = Reverse(last.acq)
        /\ NoRepeats(last.acq)
        /\ Range(last.acq) \subseteq AllResources
        /\ held = {}

\* An open that failed at the last step, one buffer allocated
C9_Witness ==
    /\ last.op = "open"
    /\ last.cbret = 0 - 12
    /\ Len(last.acq) = 4
    /\ last.rel = Reverse(last.acq)

NoFailure == Env(FALSE, FALSE, {})

\* The positions and counts the empty file is read at
EmptyReadArgs == {0, 1, S64_MAX} \X {0, 1, UINT64_MAX}

\* C11: the empty file opens, with no chunks, and every read of it at a
\* position >= 0 returns 0 and issues no stream read, table refill or codec
\* call; a context of a file that is not empty has ceil(size / chunk_size)
\* chunks, at least one.
C11_EmptyFile ==
    /\ (WellFormed(ni) /\ ni.data_size = 0) =>
          /\ ntfs_open_system_decompression_ctx(ni, NULL, NoFailure).ctx # NULL
          /\ ntfs_open_system_decompression_ctx(ni, ni.rp, NoFailure).ctx
                 .num_chunks = 0
    /\ (SlotOpen /\ ctx.uncompressed_size = 0) =>
          /\ ctx.num_chunks = 0
          /\ \A a \in EmptyReadArgs, failAt \in FailAts :
                /\ ntfs_read_system_compressed_data(ctx, a[1], a[2], failAt).ret = 0
                /\ ntfs_read_system_compressed_data(ctx, a[1], a[2], failAt).io
                       = IoStart(failAt)
                /\ ntfs_read_system_compressed_data(ctx, a[1], a[2], failAt).ctx
                       = ctx
          /\ (last.op = "read" /\ last.pos >= 0) =>
                /\ last.ret = 0
                /\ last.preads = 0 /\ last.refills = 0 /\ last.codecs = 0
    /\ (SlotOpen /\ ctx.uncompressed_size > 0) =>
          /\ ctx.num_chunks >= 1
          /\ ctx.num_chunks * ctx.chunk_size >= ctx.uncompressed_size
          /\ (ctx.num_chunks - 1) * ctx.chunk_size < ctx.uncompressed_size

\* The empty file, open, was read at its start for a byte and gave none
C11_Witness ==
    /\ SlotOpen
    /\ ni.data_size = 0
    /\ ctx.num_chunks = 0
    /\ last.op = "read"
    /\ last.pos = 0
    /\ last.count > 0
    /\ last.ret = 0

\* The sequential scan read(k * chunk_size, chunk_size) for the chunks
\* k .. n - 1 in order, starting on context c: the number of table refills
\* of each of its reads
RECURSIVE Scan(_, _, _)
RECURSIVE ScanNext(_, _, _)
ScanNext(r, k, n) == <<r.io.refills>> \o Scan(r.ctx, k + 1, n)
Scan(c, k, n) ==
    IF k >= n THEN <<>>
    ELSE ScanNext(ntfs_read_system_compressed_data(c, k * c.chunk_size,
                                                   c.chunk_size, 0), k, n)

RECURSIVE SumSeq(_)
SumSeq(s) == IF s = <<>> THEN 0 ELSE Head(s) + SumSeq(Tail(s))

\* A context fresh from open, on a well-formed file
FreshOpen == last.op = "open" /\ SlotOpen /\ WellFormed(ni)

\* A file of as many chunks as the offset window has slots (128 chunks
\* for the source's 128 slots)
WindowSizedFile == ctx.num_chunks = NUM_CHUNK_OFFSETS

\* C12 as stated: reading the chunks 0 .. N - 1 of an N-chunk file in order
\* on a fresh context, N the number of slots of the window, refills the
\* window exactly once.
C12_OneRefill ==
    (FreshOpen /\ WindowSizedFile) =>
        SumSeq(Scan(ctx, 0, ctx.num_chunks)) = 1

\* C12, amended: that scan refills the window exactly twice, at chunk 0
\* and at chunk N - 1, the last one: N slots locate N - 1 chunks.
C12_TwoRefills ==
    (FreshOpen /\ WindowSizedFile) =>
        /\ SumSeq(Scan(ctx, 0, ctx.num_chunks)) = 2
        /\ Scan(ctx, 0, ctx.num_chunks)[1] = 1
        /\ Scan(ctx, 0, ctx.num_chunks)[NUM_CHUNK_OFFSETS] = 1

\* The last chunk of such a file read with the window still at chunk 0:
\* the read refilled the window
C12_Witness ==
    /\ SlotOpen
    /\ WellFormed(ni)
    /\ WindowSizedFile
    /\ last.op = "read"
    /\ last.pos = (NUM_CHUNK_OFFSETS - 1) * ctx.chunk_size
    /\ last.ret > 0
    /\ last.refills = 1
    /\ ctx.base_chunk_idx = NUM_CHUNK_OFFSETS - 1
    /\ SumSeq(Scan(ntfs_open_system_decompression_ctx(ni, NULL,
                       NoFailure).ctx, 0, ctx.num_chunks)) = 2

\* C13: the sequential scan of a well-formed file on a fresh context
\* refills the window at the chunks 0, N - 1, 2(N - 1), ... and at no
\* other: once per N - 1 chunks.
C13_WindowLocality ==
    FreshOpen =>
        /\ Len(Scan(ctx, 0, ctx.num_chunks)) = ctx.num_chunks
        /\ \A k \in 0..(ctx.num_chunks - 1) :
              Scan(ctx, 0, ctx.num_chunks)[k + 1]
                  = IF k % (NUM_CHUNK_OFFSETS - 1) = 0 THEN 1 ELSE 0

\* A chunk read with the window one chunk behind: no refill; the next
\* chunk then refills on a file that goes on
C13_Witness ==
    /\ SlotOpen
    /\ WellFormed(ni)
    /\ ctx.num_chunks >= NUM_CHUNK_OFFSETS
    /\ last.op = "read"
    /\ last.pos = (NUM_CHUNK_OFFSETS - 2) * ctx.chunk_size
    /\ last.count = 1
    /\ last.ret = 1
    /\ last.refills = 0
    /\ ctx.base_chunk_idx = 0
    /\ Scan(ctx, NUM_CHUNK_OFFSETS - 1, NUM_CHUNK_OFFSETS) = <<1>>

\* Reads that touch no chunk: no byte asked for, and from the end of the file
IdleReadArgs(c) ==
    {<<0, 0>>, <<c.uncompressed_size, 1>>, <<c.uncompressed_size + 1, UINT64_MAX>>}

\* C14: after a read that fetched all its chunks the cached index is that
\* of the last chunk it touched, the one holding the last byte delivered;
\* after a read that broke at a chunk it could not fetch, a read with a
\* partial count included, the cached index is INVALID; a read that touches
\* no chunk leaves the index as it was.
C14_CachedIndex ==
    /\ (ReadOnOpen /\ SlotOpen) =>
          /\ last.failed # NoChunk =>
                ctx.cached_chunk_idx = INVALID_CHUNK_INDEX
          /\ (last.failed = NoChunk /\ last.ret > 0) =>
                ctx.cached_chunk_idx
                    = (last.pos + last.ret - 1) \div ctx.chunk_size
    /\ SlotOpen =>
          /\ ctx.cached_chunk_idx = INVALID_CHUNK_INDEX
                \/ ctx.cached_chunk_idx < ctx.num_chunks
          /\ \A a \in IdleReadArgs(ctx) :
                ntfs_read_system_compressed_data(ctx, a[1], a[2], 0).ctx
                    .cached_chunk_idx = ctx.cached_chunk_idx

\* A read that delivered the first chunk and broke at the second, with no
\* I/O error injected: a partial count, and no chunk cached
C14_Witness ==
    /\ ReadOnOpen
    /\ SlotOpen
    /\ ~last.injected
    /\ last.pos = 0
    /\ last.ret = ctx.chunk_size
    /\ last.count > ctx.chunk_size
    /\ last.failed = 1
    /\ ctx.cached_chunk_idx = INVALID_CHUNK_INDEX

\* C15: whenever the cached index is valid, the chunk buffer holds the
\* bytes chunk cached_chunk_idx decodes to, all of them.
C15_CachedChunk ==
    (SlotOpen /\ ctx.cached_chunk_idx # INVALID_CHUNK_INDEX) =>
        /\ ctx.cached_chunk_idx < ctx.num_chunks
        /\ ChunkIntact(ni, ctx.cached_chunk_idx)
        /\ Len(ctx.cached_chunk) = ctx.chunk_size
        /\ Take(ctx.cached_chunk, RefChunkLen(ni, ctx.cached_chunk_idx))
               = RefChunk(ni, ctx.cached_chunk_idx)

\* On a damaged file, a chunk is cached after an earlier read broke at
\* another chunk
C15_Witness ==
    /\ SlotOpen
    /\ ~WellFormed(ni)
    /\ ReadOnOpen
    /\ last.failed = NoChunk
    /\ last.ret > 0
    /\ last.codecs > 0
    /\ ctx.cached_chunk_idx = 0
    /\ Take(ctx.cached_chunk, ctx.chunk_size) = RefChunk(ni, 0)
    /\ ~ChunkIntact(ni, 1)

\* The first n chunks of the file, decoded
RefPrefix(inode, n) == Concat([k \in 1..n |-> RefChunk(inode, k - 1)])

\* The chunks of a context
Chunks(c) == 0..(c.num_chunks - 1)

\* The table read of a refill at chunk k comes back short: the stream ends
\* before the last entry asked for
TableShort(c, k) ==
    (WindowRange(c, k).first_entry_to_read
        + WindowRange(c, k).num_entries_to_read) * Pow2(EntryShift(c))
    > Len(c.na)

\* What a failed refill at chunk k leaves behind, loc being what locate
\* returned: an error, an empty window, and a refill at whatever chunk is
\* located next
RefillFailed(loc) ==
    /\ loc.ret = 0 - 1
    /\ loc.io.refills = 1
    /\ loc.ctx.base_chunk_idx = INVALID_CHUNK_INDEX
    /\ \A k \in Chunks(loc.ctx) :
          /\ NeedsRefill(loc.ctx, k)
          /\ get_chunk_location(loc.ctx, IoStart(0), k).io.refills = 1

\* C16: a refill whose table read fails or comes back short makes locate
\* return an error and leaves the window empty, so that the next locate
\* refills; a read that starts at that chunk returns -1, and a read that
\* had delivered bytes of earlier chunks returns their count.
C16_RefillFails ==
    /\ SlotOpen =>
          \A k \in Chunks(ctx), failAt \in {0, 1} :
              (NeedsRefill(ctx, k) /\ (failAt = 1 \/ TableShort(ctx, k))) =>
                  /\ RefillFailed(get_chunk_location(ctx, IoStart(failAt), k))
                  /\ get_chunk_location(ctx, IoStart(failAt), k).errno
                         = IF failAt = 1 THEN "EIO" ELSE "EINVAL"
                  /\ k # ctx.cached_chunk_idx =>
                        ntfs_read_system_compressed_data(
                            ctx, k * ctx.chunk_size, 1, failAt).ret = 0 - 1
    /\ (ReadOnOpen /\ SlotOpen /\ last.failed # NoChunk
            /\ ctx.base_chunk_idx = INVALID_CHUNK_INDEX) =>
          /\ last.refills >= 1
          /\ last.ret = IF last.failed * ctx.chunk_size <= last.pos THEN 0 - 1
                        ELSE last.failed * ctx.chunk_size - last.pos
          /\ last.ret > 0 =>
                last.buf = SubSeq(RefPrefix(ni, last.failed),
                                  last.pos + 1, last.pos + last.ret)

\* A read that took a chunk from the cache and then failed to refill the
\* window for the next one: a partial count, the window empty
C16_Witness ==
    /\ ReadOnOpen
    /\ SlotOpen
    /\ last.injected
    /\ last.failed > 0
    /\ last.refills = 1
    /\ last.preads = 1
    /\ last.ret = last.failed * ctx.chunk_size - last.pos
    /\ last.ret > 0
    /\ ctx.base_chunk_idx = INVALID_CHUNK_INDEX

\* Locate gives chunk k a stored size of zero or of more than the chunk
\* decodes to
BadStoredSize(c, k) ==
    /\ get_chunk_location(c, IoStart(0), k).ret = 0
    /\ \/ get_chunk_location(c, IoStart(0), k).stored_size = 0
       \/ get_chunk_location(c, IoStart(0), k).stored_size > RefChunkLen(ni, k)

\* The table puts the start of chunk k + 1 before the start of chunk k,
\* by less than what makes the 32-bit difference come out as a stored size
\* a chunk may have
NextOffsetSmaller(c, k) ==
    /\ Len(c.na) >= RefTableLen(ni)
    /\ RefStart(ni, k + 1) < RefStart(ni, k)
    /\ RefStart(ni, k) - RefStart(ni, k + 1) < U32Mod - c.chunk_size

\* C17: a chunk that locate gives a stored size of zero, or of more than
\* its uncompressed length, makes the fetch fail with EINVAL with no
\* payload read and no codec call, the chunk buffer untouched; a table whose
\* next offset is the smaller gives such a size; the chunk is never cached
\* and no read delivers a byte of it.
C17_StoredSizeChecked ==
    SlotOpen =>
        \A k \in Chunks(ctx) :
            /\ (get_chunk_location(ctx, IoStart(0), k).ret = 0
                    /\ NextOffsetSmaller(ctx, k)) => BadStoredSize(ctx, k)
            /\ BadStoredSize(ctx, k) =>
                  /\ read_and_decompress_chunk(ctx, IoStart(0), k).ret = 0 - 1
                  /\ read_and_decompress_chunk(ctx, IoStart(0), k).errno = "EINVAL"
                  /\ read_and_decompress_chunk(ctx, IoStart(0), k).io
                         = get_chunk_location(ctx, IoStart(0), k).io
                  /\ read_and_decompress_chunk(ctx, IoStart(0), k).io.codecs = 0
                  /\ read_and_decompress_chunk(ctx, IoStart(0), k).ctx.cached_chunk
                         = ctx.cached_chunk
                  /\ ctx.cached_chunk_idx # k
                  /\ ntfs_read_system_compressed_data(
                         ctx, k * ctx.chunk_size, UINT64_MAX, 0).ret = 0 - 1
                  /\ \A j \in 0..(k - 1) :
                        ntfs_read_system_compressed_data(
                            ctx, j * ctx.chunk_size, UINT64_MAX, 0).ret
                        <= (k - j) * ctx.chunk_size
                  /\ (ReadOnOpen /\ last.ret > 0) =>
                        last.pos + last.ret <= k * ctx.chunk_size
                        \/ last.pos >= (k + 1) * ctx.chunk_size

\* With the window loaded, a read at the second chunk, whose next offset
\* lies before its own, failed with EINVAL without a stream read
C17_Witness ==
    /\ ReadOnOpen
    /\ SlotOpen
    /\ ctx.num_chunks > 1
    /\ NextOffsetSmaller(ctx, 1)
    /\ BadStoredSize(ctx, 1)
    /\ last.pos = ctx.chunk_size
    /\ last.ret = 0 - 1
    /\ last.errno = "EINVAL"
    /\ last.failed = 1
    /\ last.preads = 0
    /\ last.codecs = 0

\* The stored bytes of chunk k as locate places them, read from the stream
LocatedBytes(c, k) ==
    ntfs_attr_pread(c.na,
                    get_chunk_location(c, IoStart(0), k).offset,
                    get_chunk_location(c, IoStart(0), k).stored_size,
                    FALSE).data

\* Locate gives chunk k a stored size from lo to hi
StoredWithin(c, k, lo, hi) ==
    /\ get_chunk_location(c, IoStart(0), k).ret = 0
    /\ get_chunk_location(c, IoStart(0), k).stored_size >= lo
    /\ get_chunk_location(c, IoStart(0), k).stored_size <= hi

\* The fetch of chunk k on context c, nothing failing in the stream
Fetched(c, k) == read_and_decompress_chunk(c, IoStart(0), k)

\* C18: a chunk stored at its uncompressed length is read straight into
\* the destination buffer, with no codec call; a shorter one is read into
\* the temporary buffer and the codec is called once, on stored-size bytes
\* for the chunk's uncompressed length, the fetch failing when the codec
\* does.
C18_RawOrCodec ==
    SlotOpen =>
        \A k \in Chunks(ctx) :
            /\ StoredWithin(ctx, k, RefChunkLen(ni, k), RefChunkLen(ni, k)) =>
                  /\ Fetched(ctx, k).read_buffer = "buffer"
                  /\ Fetched(ctx, k).codec_args = <<>>
                  /\ Fetched(ctx, k).io.codecs = 0
                  /\ Fetched(ctx, k).io.preads
                         = get_chunk_location(ctx, IoStart(0), k).io.preads + 1
                  /\ Len(LocatedBytes(ctx, k)) = RefChunkLen(ni, k) =>
                        /\ Fetched(ctx, k).ret = 0
                        /\ Take(Fetched(ctx, k).ctx.cached_chunk,
                                RefChunkLen(ni, k)) = LocatedBytes(ctx, k)
            /\ StoredWithin(ctx, k, 1, RefChunkLen(ni, k) - 1) =>
                  /\ Fetched(ctx, k).read_buffer = "temp_buffer"
                  /\ Fetched(ctx, k).io.preads
                         = get_chunk_location(ctx, IoStart(0), k).io.preads + 1
                  /\ Len(LocatedBytes(ctx, k))
                         = get_chunk_location(ctx, IoStart(0), k).stored_size =>
                        /\ Fetched(ctx, k).io.codecs = 1
                        /\ Fetched(ctx, k).codec_args
                               = <<<<get_chunk_location(ctx, IoStart(0), k)
                                         .stored_size,
                                     RefChunkLen(ni, k)>>>>
                        /\ Fetched(ctx, k).ret = 0
                               <=> decompress(ctx.format, LocatedBytes(ctx, k),
                                              RefChunkLen(ni, k)).ret = 0
                        /\ Fetched(ctx, k).ret = 0 =>
                               Take(Fetched(ctx, k).ctx.cached_chunk,
                                    RefChunkLen(ni, k))
                               = decompress(ctx.format, LocatedBytes(ctx, k),
                                            RefChunkLen(ni, k)).out

\* A file with a chunk stored raw and a chunk stored compressed, of which a
\* read has just fetched a compressed one with one codec call
C18_Witness ==
    /\ ReadOnOpen
    /\ SlotOpen
    /\ last.ret > 0
    /\ last.count = 1
    /\ last.codecs = 1
    /\ last.preads >= 1
    /\ \E k \in Chunks(ctx) :
          /\ StoredWithin(ctx, k, RefChunkLen(ni, k), RefChunkLen(ni, k))
          /\ Fetched(ctx, k).ret = 0
          /\ Fetched(ctx, k).read_buffer = "buffer"
    /\ \E k \in Chunks(ctx) :
          /\ StoredWithin(ctx, k, 1, RefChunkLen(ni, k) - 1)
          /\ Fetched(ctx, k).ret = 0
          /\ Fetched(ctx, k).read_buffer = "temp_buffer"
          /\ Fetched(ctx, k).io.codecs = 1

\* The chunks order[i], order[i + 1], ... located one after the other, each
\* on the context the one before left: the stored size of each (what =
\* "size"; -1 for a locate that failed) or the refills it made (what =
\* "refills")
RECURSIVE LocateAll(_, _, _, _)
RECURSIVE LocateNext(_, _, _, _)
LocateNext(loc, order, i, what) ==
    <<IF what = "refills" THEN loc.io.refills
      ELSE IF loc.ret # 0 THEN 0 - 1 ELSE loc.stored_size>>
    \o LocateAll(loc.ctx, order, i + 1, what)
LocateAll(c, order, i, what) ==
    IF i >= c.num_chunks THEN <<>>
    ELSE LocateNext(get_chunk_location(c, IoStart(0), order[i]), order, i, what)

\* The sizes located for the chunks in the given order are the lengths the
\* chunks are stored at and add up to the stream less its table
SizesAddUp(sizes, order) ==
    /\ SumSeq(sizes) = ctx.compressed_size
                        - (ctx.num_chunks - 1) * EntryBytes(ni.data_size)
    /\ \A i \in Chunks(ctx) : sizes[i + 1] = Len(RefStored(ni, order[i]))

WindowLoaded(c) == c.base_chunk_idx # INVALID_CHUNK_INDEX

\* The refill that loaded the window, done again
Reloaded(c) == RefillWindow(c, IoStart(0), c.base_chunk_idx)

\* The chunks a window at base covers
Covered(c) ==
    {k \in Chunks(c) :
        /\ k >= c.base_chunk_idx
        /\ k < min(c.base_chunk_idx + NUM_CHUNK_OFFSETS - 1, c.num_chunks)}

\* C20: a window that is not empty starts at a chunk of the file and is
\* used for exactly the chunks from its base up to, and without,
\* min(base + N - 1, num_chunks); the refill that loads it writes the
\* slots 0 .. w - 1 for a w from 2 to N, and they hold what it wrote; a
\* lookup in it reads two slots k and k + 1 among those; and any refill
\* this state can make writes no slot past N - 1 and is followed by a
\* lookup of the slots 0 and 1.
C20_WindowBounds ==
    SlotOpen =>
        /\ WindowLoaded(ctx) =>
              /\ ctx.base_chunk_idx < ctx.num_chunks
              /\ {k \in Chunks(ctx) : ~NeedsRefill(ctx, k)} = Covered(ctx)
              /\ Reloaded(ctx).ret = 0
              /\ Reloaded(ctx).written >= 2
              /\ Reloaded(ctx).written <= NUM_CHUNK_OFFSETS
              /\ Reloaded(ctx).ctx.base_chunk_offset = ctx.base_chunk_offset
              /\ \A j \in 0..(Reloaded(ctx).written - 1) :
                    Reloaded(ctx).ctx.chunk_offsets[j] = ctx.chunk_offsets[j]
              /\ \A k \in Covered(ctx) :
                    /\ get_chunk_location(ctx, IoStart(0), k).io.refills = 0
                    /\ get_chunk_location(ctx, IoStart(0), k).cache_idx
                           = k - ctx.base_chunk_idx
                    /\ get_chunk_location(ctx, IoStart(0), k).cache_idx >= 0
                    /\ get_chunk_location(ctx, IoStart(0), k).cache_idx + 1
                           < Reloaded(ctx).written
        /\ \A k \in Chunks(ctx) :
              RefillWindow(ctx, IoStart(0), k).ret = 0 =>
                  /\ RefillWindow(ctx, IoStart(0), k).written >= 2
                  /\ RefillWindow(ctx, IoStart(0), k).written
                         <= NUM_CHUNK_OFFSETS
                  /\ NeedsRefill(ctx, k) =>
                        get_chunk_location(ctx, IoStart(0), k).cache_idx = 0

\* The window at the last chunk of a file of three chunks or more, loaded
\* over an earlier window that had written more slots than it: two slots
\* written, the last chunk alone covered
C20_Witness ==
    /\ SlotOpen
    /\ ctx.num_chunks >= 3
    /\ ctx.base_chunk_idx = ctx.num_chunks - 1
    /\ Reloaded(ctx).written = 2
    /\ Covered(ctx) = {ctx.num_chunks - 1}
    /\ ctx.chunk_offsets[NUM_CHUNK_OFFSETS - 1] # Junk
    /\ last.op = "read"
    /\ last.refills >= 1

\* The table of a stream read entry by entry, with no window: the offset
\* of chunk k from the end of the table (chunk num_chunks: the end of
\* the stream), and where chunk k is stored and at what size
DirectEntry(inode, c, k) ==
    IF k = 0 THEN 0
    ELSE IF k = c.num_chunks
    THEN c.compressed_size - (c.num_chunks - 1) * EntryBytes(inode.data_size)
    ELSE le_to_cpu(SubSeq(inode.wof,
                          (k - 1) * EntryBytes(inode.data_size) + 1,
                          k * EntryBytes(inode.data_size)))
DirectOffset(inode, c, k) ==
    u64((c.num_chunks - 1) * EntryBytes(inode.data_size)
        + DirectEntry(inode, c, k))
DirectSize(inode, c, k) ==
    u32(DirectEntry(inode, c, k + 1) - DirectEntry(inode, c, k))

\* The largest chunk size of any format
MaxChunkSize == Pow2(get_chunk_order(FORMAT_LZX))

\* Slot j of the loaded window is the difference, taken in the integers,
\* of the offset of chunk base + j and the offset of chunk base
SlotExact(inode, c, j) ==
    c.chunk_offsets[j] = DirectEntry(inode, c, c.base_chunk_idx + j)
                         - DirectEntry(inode, c, c.base_chunk_idx)

\* C21: after a successful refill every slot the refill wrote, the one for
\* the end of the stream included, holds the exact difference between
\* the offset in the table and the offset the window starts at, which is
\* at most N times the largest chunk size and so fits 32 bits, with
\* 4-byte and with 8-byte entries.
C21_ExactDifferences ==
    (SlotOpen /\ WindowLoaded(ctx)) =>
        /\ NUM_CHUNK_OFFSETS * MaxChunkSize <= UINT32_MAX
        /\ \A j \in 0..(Reloaded(ctx).written - 1) :
              /\ SlotExact(ni, ctx, j)
              /\ ctx.chunk_offsets[j] <= NUM_CHUNK_OFFSETS * MaxChunkSize

\* get_chunk_data for chunk k again, right after the call that returned
\* first; io is the stream as the second call finds it
Again(first, io, k) == get_chunk_data(first.ctx, io, k)

\* The second call returns the buffer the first returned, with the same
\* bytes, and leaves the context and the stream alone
ServedFromCache(first, second) ==
    /\ second.ok
    /\ second.ctx.cached_chunk = first.ctx.cached_chunk
    /\ second.ctx = first.ctx
    /\ second.io.preads = 0
    /\ second.io.refills = 0
    /\ second.io.codecs = 0

\* The two calls for chunk k from context c, when the first returns a
\* buffer; the second is tried with a stream that works and with one whose
\* next read would fail
SameTwice(first, k) ==
    first.ok => \A f \in FailAts : ServedFromCache(first, Again(first, IoStart(f), k))

\* C22: two calls of get_chunk_data for the same chunk in a row that
\* return a buffer return the same bytes, and the second call reads
\* nothing from the stream, refills no window and runs no codec.
C22_DecodeIdempotent ==
    SlotOpen =>
        \A k \in Chunks(ctx) :
            \A f \in FailAts : SameTwice(get_chunk_data(ctx, IoStart(f), k), k)

\* A chunk that is not the cached one is fetched with a refill, a read
\* and the codec, and asked for again
C22_Witness ==
    /\ SlotOpen
    /\ WellFormed(ni)
    /\ \E k \in Chunks(ctx) :
          /\ k # ctx.cached_chunk_idx
          /\ get_chunk_data(ctx, IoStart(0), k).ok
          /\ get_chunk_data(ctx, IoStart(0), k).io.refills = 1
          /\ get_chunk_data(ctx, IoStart(0), k).io.codecs = 1
          /\ get_chunk_data(ctx, IoStart(0), k).ctx.cached_chunk
                 = RefChunk(ni, k)
          /\ Again(get_chunk_data(ctx, IoStart(0), k), IoStart(1), k).ok

\* The fields a context takes from the file when it is opened
Snapshot(c) ==
    [format |-> c.format, uncompressed_size |-> c.uncompressed_size,
     compressed_size |-> c.compressed_size, chunk_order |-> c.chunk_order,
     chunk_size |-> c.chunk_size, num_chunks |-> c.num_chunks]

\* What an open of the file takes them to be
OpenSnapshot(inode) ==
    [format |-> RefFormat(inode), uncompressed_size |-> inode.data_size,
     compressed_size |-> Len(inode.wof),
     chunk_order |-> get_chunk_order(RefFormat(inode)),
     chunk_size |-> RefChunkSize(inode),
     num_chunks |-> (inode.data_size + RefChunkSize(inode) - 1)
                        \div RefChunkSize(inode)]

\* C23: a read on an open context, whatever it returns, leaves format,
\* uncompressed_size, compressed_size, chunk_order, chunk_size and
\* num_chunks as they were, which is as the open set them.
C23_SnapshotKept ==
    [][(last'.op = "read" /\ SlotOpen) =>
           /\ Snapshot(ctx') = Snapshot(ctx)
           /\ Snapshot(ctx') = OpenSnapshot(ni)
      ]_vars

\* A read that returned the bytes of the chunks before the one it failed
\* on, fewer than it was asked for, the fields still as opened
C23_Witness ==
    /\ SlotOpen
    /\ last.op = "read"
    /\ last.ret > 0
    /\ last.failed # NoChunk
    /\ last.ret < min(last.count, ctx.uncompressed_size - last.pos)
    /\ ctx.base_chunk_idx # INVALID_CHUNK_INDEX
    /\ Snapshot(ctx) = OpenSnapshot(ni)

\* The context as it is before its first read: no window, no cached chunk
Unread(c) ==
    [c EXCEPT !.base_chunk_idx = INVALID_CHUNK_INDEX,
              !.cached_chunk_idx = INVALID_CHUNK_INDEX]

\* Two locates agree: both fail, or both give the same offset and size
SameLocation(a, b) ==
    /\ a.ret = b.ret
    /\ a.ret = 0 => (a.offset = b.offset /\ a.stored_size = b.stored_size)

\* A locate that succeeds gives what the table says of chunk k
AsTableSays(loc, inode, c, k) ==
    loc.ret = 0 =>
        /\ loc.offset = DirectOffset(inode, c, k)
        /\ loc.stored_size = DirectSize(inode, c, k)

\* Two reads agree in what they return and in the bytes they deliver
SameRead(a, b) == a.ret = b.ret /\ a.buf = b.buf

\* C24: whatever the stream holds and whatever was read before, locate of
\* a chunk gives the offset and the stored size that it gives on the
\* context before its first read, which are those of the table's entries
\* read directly, and read(pos, count) returns what it returns there.
C24_CacheTransparent ==
    SlotOpen =>
        /\ \A k \in Chunks(ctx) :
              /\ SameLocation(get_chunk_location(ctx, IoStart(0), k),
                              get_chunk_location(Unread(ctx), IoStart(0), k))
              /\ AsTableSays(get_chunk_location(ctx, IoStart(0), k),
                             ni, ctx, k)
        /\ \A arg \in ReadArgs(ctx) :
              SameRead(ReadBytes(ctx, arg[1], arg[2]),
                       ReadBytes(Unread(ctx), arg[1], arg[2]))

\* The size of the chunk offset table of context c, in entries and in bytes
TableEntries(c) == c.num_chunks - 1
TableSize(c) == TableEntries(c) * Pow2(EntryShift(c))

\* The entries rng names are entries of the table, no more of them than
\* the window has slots, and the bytes asked for lie in the table and fit
\* temp_buffer
RequestInTable(c, rng, req) ==
    /\ rng.first_entry_to_read >= 0
    /\ rng.num_entries_to_read >= 0
    /\ rng.first_entry_to_read + rng.num_entries_to_read <= TableEntries(c)
    /\ rng.num_entries_to_read <= NUM_CHUNK_OFFSETS
    /\ req.pos = rng.first_entry_to_read * Pow2(EntryShift(c))
    /\ req.count = rng.num_entries_to_read * Pow2(EntryShift(c))
    /\ req.pos + req.count <= TableSize(c)
    /\ req.count <= Len(c.temp_buffer)

\* The refill of a file of one chunk: nothing is asked of the stream, and
\* slot 0 is 0 and slot 1 the length of the stream
OneChunkRefill(c, rng, r) ==
    /\ rng.num_entries_to_read = 0
    /\ r.ret = 0
    /\ r.written = 2
    /\ r.ctx.base_chunk_idx = 0
    /\ r.ctx.base_chunk_offset = 0
    /\ r.ctx.chunk_offsets[0] = 0
    /\ r.ctx.chunk_offsets[1] = c.compressed_size

\* C25: the refill for any chunk of the file asks for entries that all lie
\* in the chunk offset table, first_entry_to_read + num_entries_to_read
\* being at most num_chunks - 1, and for N of them at most, which fit
\* temp_buffer; on a file of one chunk it asks for none and, the stream
\* read not failing, succeeds with slot 0 = 0 and slot 1 = compressed_size.
C25_RefillInTable ==
    SlotOpen =>
        \A k \in Chunks(ctx) :
            /\ RequestInTable(ctx, WindowRange(ctx, k),
                              TableRequest(ctx, WindowRange(ctx, k)))
            /\ ctx.num_chunks = 1 =>
                  OneChunkRefill(ctx, WindowRange(ctx, k),
                                 RefillWindow(ctx, IoStart(0), k))

\* A file of one chunk was read with one refill that asked nothing of the
\* stream and left slot 1 at the length of the stream
C25_Witness ==
    /\ SlotOpen
    /\ last.op = "read"
    /\ last.refills = 1
    /\ last.ret > 0
    /\ ctx.num_chunks = 1
    /\ ctx.base_chunk_idx = 0
    /\ ctx.chunk_offsets[1] = ctx.compressed_size
    /\ TableRequest(ctx, WindowRange(ctx, 0)).count = 0

====
